---- MODULE Spec2Model ----
(***************************************************************************)
(* Model of the register-based device client of the Circular integration:  *)
(*   custom_components/circular/api.py      CircularApiData (device state  *)
(*                                          model) and CircularApiClient   *)
(*                                          (control client, eco-mode      *)
(*                                          drive, polling orchestration)  *)
(*   custom_components/circular/winet/*.py  register protocol client, and  *)
(*                                          the HTTP request executor with *)
(*                                          its retry loop                 *)
(*                                                                         *)
(* Python floats that reach the client from the host (setter arguments,    *)
(* the external entity's temperature) are represented as integers counting *)
(* 1/Scale units, so that int() (truncation toward zero) is not the        *)
(* identity.  Register values and everything decoded from them are plain   *)
(* integers, as in the protocol.                                           *)
(***************************************************************************)
EXTENDS Integers, Sequences, FiniteSets, TLC

VARIABLES
    data,                       \* CircularApiClient._data : CircularApiData
    count_delta_ecomode_asked,  \* CircularApiClient._count_delta_ecomode_asked
    delta_ecomode,              \* CircularApiClient._delta_ecomode
    update_lock,                \* CircularApiClient._update_lock: 0 free, else the holder
    pc,                         \* position of each caller inside update_data
    cycle,                      \* what each caller's last update_data call did
    out,                        \* what the last completed operation did
    folded,                     \* history: fold of dict-overwrite over the snapshots
    desired,                    \* history: handshake bookkeeping of the eco-mode drive
    http,                       \* an HTTPRequestExecutor, its session and its call in progress
    threads                     \* CircularApiData._data_lock and the calls of update and
                                \* get_changed_fields that threads are in the middle of

vars == <<data, count_delta_ecomode_asked, delta_ecomode, update_lock, pc,
          cycle, out, folded, desired, http, threads>>

-----------------------------------------------------------------------------
(* Bounds of the model *)

\* resolution of host-supplied floats: a float x is the integer x * Scale
Scale == 2
\* longest params list of one snapshot
MaxSnapLen == 2
\* cap on the number of pending heating requests
MaxCount == 2
\* number of concurrent callers of update_data
NumCallers == 2
\* largest max_retries an HTTPRequestExecutor is built with
MaxRetries == 3

-----------------------------------------------------------------------------
(* Program constants *)

\* const.py
MIN_DELTA_ECOMODE_TEMP == 0
MAX_DELTA_ECOMODE_TEMP == 5
MIN_THERMOSTAT_TEMP == 5
MAX_THERMOSTAT_TEMP == 40
MIN_POWER == 1
MAX_POWER == 5
MIN_FAN_SPEED == 0
MAX_FAN_SPEED == 6

\* winet/const.py, WinetRegister
STATUS == 2
ALARMS_BITS == 3
TEMPERATURE_PROBE == 6
TEMPERATURE_SET == 50
POWER_SET == 51
FAN_AR_SPEED == 187

\* winet/const.py, WinetRegisterCategory
CAT_NONE == -1
POLL_CATEGORY_2 == 2
POLL_CATEGORY_4 == 4
POLL_CATEGORY_6 == 6
\* the category None that update_data gives its "hardware" entry: Python's
\* None, which is no member of WinetRegisterCategory (it is not NONE)
PyNone == -2

\* api.py, CircularDeviceStatus (the codes the claims name)
ST_OFF == 0
ST_WORK == 5
ST_ECO_STOP == 8
ST_ALARM == 11
ST_UNKNOWN == -1

\* the members of the three enums, by value
CircularDeviceStatus == (0 .. 11) \cup {ST_UNKNOWN}
CircularDeviceAlarm == (0 .. 9) \cup {12, 14, 15, 19, 25}
WinetProductModel == (0 .. 5) \cup {8}

\* winet/const.py, WinetRegisterKey: member name -> value
WinetRegisterKey == [POLL_DATA |-> "020", CHANGE_STATUS |-> "022"]

-----------------------------------------------------------------------------
(* Python helpers *)

\* int(x) of a float x: truncation toward zero
IntOf(x) == IF x >= 0 THEN x \div Scale ELSE -((-x) \div Scale)

\* float(n) of an integer n
FloatOf(n) == n * Scale

Min(a, b) == IF b < a THEN b ELSE a
Max(a, b) == IF b > a THEN b ELSE a

\* a clamp that forgets the lower limit
clamp_NoLowerLimit(value, valuemin, valuemax) == Min(value, valuemax)

clamp(value, valuemin, valuemax) == Max(valuemin, Min(value, valuemax))

\* a dict assignment that never finds the key it already holds
DictSet_AlwaysAppend(d, key, value) == Append(d, <<key, value>>)

\* d[key] = value on an insertion-ordered dict, kept as a sequence of
\* <<key, value>> pairs with distinct keys
DictSet(d, key, value) ==
    IF \E i \in 1 .. Len(d) : d[i][1] = key
    THEN [i \in 1 .. Len(d) |-> IF d[i][1] = key THEN <<key, value>> ELSE d[i]]
    ELSE Append(d, <<key, value>>)

RECURSIVE DictSetAll(_, _)
DictSetAll(d, pairs) ==
    IF pairs = << >> THEN d
    ELSE DictSetAll(DictSet(d, Head(pairs)[1], Head(pairs)[2]), Tail(pairs))

\* CircularApiData._merge_params_efficiently
merge_params_efficiently(params, new_params) ==
    DictSetAll(DictSetAll(<< >>, params), new_params)

\* _get_register_value answering 0 for a register that is not there
get_register_value_DefaultsToZero(params, registerid) ==
    IF \E i \in 1 .. Len(params) : params[i][1] = registerid
    THEN [found |-> TRUE,
          value |-> params[CHOOSE i \in 1 .. Len(params) :
                              /\ params[i][1] = registerid
                              /\ \A j \in 1 .. (i - 1) : params[j][1] # registerid][2],
          message |-> << >>, logged |-> << >>]
    ELSE [found |-> TRUE, value |-> 0, message |-> << >>, logged |-> << >>]

\* CircularApiData._get_register_value: the first pair with the id;
\* found = FALSE stands for the raised WinetAPIError, of which message is
\* the text (a constant) and logged the line of LOGGER.error before it (an
\* f-string around the id), both as the sequence of their pieces
get_register_value(params, registerid) ==
    IF \E i \in 1 .. Len(params) : params[i][1] = registerid
    THEN [found |-> TRUE,
          value |-> params[CHOOSE i \in 1 .. Len(params) :
                              /\ params[i][1] = registerid
                              /\ \A j \in 1 .. (i - 1) : params[j][1] # registerid][2],
          message |-> << >>, logged |-> << >>]
    ELSE [found |-> FALSE, value |-> 0,
          message |-> <<"RegisterId not found in data">>,
          logged |-> <<"RegisterId ", ToString(registerid), " not found in data">>]

-----------------------------------------------------------------------------
(* CircularApiData: the device state model *)

\* CircularApiData.__init__ over the defaults of WinetGetRegisterResult
InitData ==
    [params |-> << >>, signal |-> 0, name |-> "CIRCULAR8", alr |-> "", model |-> 0,
     status |-> ST_UNKNOWN, alarms |-> << >>,
     temperature_read |-> 0, temperature_set |-> 0, power_set |-> 0, fan_speed |-> 0,
     changed_fields |-> {},
     eco_mode_drive_activated |-> FALSE,
     temperature_ask_by_external_entity |-> 0,
     auto_regulated_temperature |-> FALSE]

\* the outcome of a step on the data: the data after it and the exception
\* that left it ("none" when it returned)
Ok(d) == [d |-> d, exc |-> "none"]
Raised(d, e) == [d |-> d, exc |-> e]

\* CircularDeviceStatus(status) raises ValueError for a code that is no member
decode_status(d) ==
    LET r == get_register_value(d.params, STATUS) IN
    IF ~r.found THEN Raised(d, "WinetAPIError")
    ELSE IF r.value \notin CircularDeviceStatus THEN Raised(d, "ValueError")
    ELSE Ok([d EXCEPT !.status = r.value])

\* _decode_alarms without alarms.clear()
decode_alarms_Appends(d) ==
    LET r == get_register_value(d.params, ALARMS_BITS) IN
    IF ~r.found THEN Raised(d, "WinetAPIError")
    ELSE IF r.value < 0 THEN Ok(d)
    ELSE IF r.value \notin CircularDeviceAlarm THEN Raised(d, "ValueError")
    ELSE Ok([d EXCEPT !.alarms = Append(@, r.value)])

\* alarms.clear() runs before CircularDeviceAlarm(alarmsbyte) is evaluated
decode_alarms(d) ==
    LET r == get_register_value(d.params, ALARMS_BITS) IN
    IF ~r.found THEN Raised(d, "WinetAPIError")
    ELSE IF r.value < 0 THEN Ok(d)
    ELSE IF r.value \notin CircularDeviceAlarm
         THEN Raised([d EXCEPT !.alarms = << >>], "ValueError")
    ELSE Ok([d EXCEPT !.alarms = <<r.value>>])

decode_temperature_read(d) ==
    LET r == get_register_value(d.params, TEMPERATURE_PROBE) IN
    IF ~r.found THEN Raised(d, "WinetAPIError")
    ELSE Ok([d EXCEPT !.temperature_read = r.value])

decode_temperature_set(d) ==
    LET r == get_register_value(d.params, TEMPERATURE_SET) IN
    IF ~r.found THEN Raised(d, "WinetAPIError")
    ELSE Ok([d EXCEPT !.temperature_set = r.value])

decode_power_set(d) ==
    LET r == get_register_value(d.params, POWER_SET) IN
    IF ~r.found THEN Raised(d, "WinetAPIError")
    ELSE Ok([d EXCEPT !.power_set = r.value])

decode_fan_speed(d) ==
    LET r == get_register_value(d.params, FAN_AR_SPEED) IN
    IF ~r.found THEN Raised(d, "WinetAPIError")
    ELSE Ok([d EXCEPT !.fan_speed = r.value])

\* the three decodes run in order inside one try; the first missing register
\* ends the block and the WinetAPIError is logged, not raised
update_temperature_data(d) ==
    LET a == decode_temperature_read(d) IN
    IF a.exc # "none" THEN a.d
    ELSE LET b == decode_temperature_set(a.d) IN
         IF b.exc # "none" THEN b.d
         ELSE decode_power_set(b.d).d

\* WinetAPIError is logged; a ValueError of the alarm enum is not caught
update_alarm_data(d) ==
    LET a == decode_alarms(d) IN
    IF a.exc = "WinetAPIError" THEN Ok(a.d)
    ELSE IF a.exc = "ValueError" THEN a
    ELSE Ok(decode_fan_speed(a.d).d)

Mark(d, fields) == [d EXCEPT !.changed_fields = @ \cup fields]

\* update, lines 164-178: the merge and the metadata but the model
update_merge(d, newdata) ==
    [d EXCEPT !.params = merge_params_efficiently(d.params, newdata.params),
              !.signal = newdata.signal,
              !.alr = newdata.alr,
              !.name = newdata.name]

\* update with the temperature block run for category 4 as well
update_category_Category4Decodes(d, category) ==
    IF category = POLL_CATEGORY_2
        THEN Ok(Mark(update_temperature_data(d),
                     {"temperature_read", "temperature_set", "power_set", "status"}))
    ELSE IF category = POLL_CATEGORY_6
        THEN LET a == update_alarm_data(d) IN
             IF a.exc = "none" THEN Ok(Mark(a.d, {"alarms", "fan_speed"})) ELSE a
    ELSE IF category = POLL_CATEGORY_4
        THEN Ok(Mark(update_temperature_data(d), {"fan_configuration"}))
    ELSE Ok(d)

\* update, lines 182-193: the decoding of the category
update_category(d, category) ==
    IF category = POLL_CATEGORY_2
        THEN Ok(Mark(update_temperature_data(d),
                     {"temperature_read", "temperature_set", "power_set", "status"}))
    ELSE IF category = POLL_CATEGORY_6
        THEN LET a == update_alarm_data(d) IN
             IF a.exc = "none" THEN Ok(Mark(a.d, {"alarms", "fan_speed"})) ELSE a
    ELSE IF category = POLL_CATEGORY_4
        THEN Ok(Mark(d, {"fan_configuration"}))
    ELSE Ok(d)

\* the status decode with a missing register raised out of update
update_status_outcome_Fatal(d, s) ==
    IF s.exc = "none" THEN Ok(Mark(s.d, {"status"}))
    ELSE Raised(d, s.exc)

\* update, lines 196-202, after the decoding c of the category: the status
\* is decoded when its register is there; s is the outcome of _decode_status
update_status_outcome(d, s) ==
    IF s.exc = "none" THEN Ok(Mark(s.d, {"status"}))
    ELSE IF s.exc = "WinetAPIError" THEN Ok(d)
    ELSE Raised(d, s.exc)

update_status(c) ==
    IF c.exc # "none" THEN c ELSE update_status_outcome(c.d, decode_status(c.d))

\* update, lines 179-202: WinetProductModel(newdata.model) raises ValueError
\* for a model that is no member, after the merge
update_decode(d, newdata, category) ==
    IF newdata.model \notin WinetProductModel THEN Raised(d, "ValueError")
    ELSE update_status(update_category([d EXCEPT !.model = newdata.model], category))

\* CircularApiData.update, the whole body under _data_lock
update(d, newdata, category) ==
    update_decode(update_merge(d, newdata), newdata, category)

\* get_changed_fields without the clear()
get_changed_fields_NoClear(d) ==
    [d |-> d, fields |-> d.changed_fields]

\* CircularApiData.get_changed_fields, the whole body under _data_lock
get_changed_fields(d) ==
    [d |-> [d EXCEPT !.changed_fields = {}], fields |-> d.changed_fields]

-----------------------------------------------------------------------------
(* WinetAPILocal: the register protocol client *)

\* str(category.value) of the three poll categories
StrOfCategory(category) ==
    IF category = POLL_CATEGORY_2 THEN "2"
    ELSE IF category = POLL_CATEGORY_4 THEN "4"
    ELSE IF category = POLL_CATEGORY_6 THEN "6"
    ELSE "-1"

\* one POST as it leaves the client; a field the body does not carry is ""
\* (strings) or -1 (numbers).  regId and value are sent as str(int), kept
\* here as the integers they spell.
GetRequest(key, category) ==
    [url |-> "/ajax/get-registers", key |-> key, category |-> category,
     memory |-> -1, regId |-> -1, value |-> -1]
SetRequest(key, memory, regId, value) ==
    [url |-> "/ajax/set-register", key |-> key, category |-> "",
     memory |-> memory, regId |-> regId, value |-> value]

DefaultMeta == [signal |-> 0, name |-> "CIRCULAR8", alr |-> "", model |-> 0]

Snapshot(params, meta) ==
    [params |-> params, signal |-> meta.signal, name |-> meta.name,
     alr |-> meta.alr, model |-> meta.model]

\* what the device (or the network) answers to one POST:
\*   "error"   the status is not 200 (or the connection fails): the call raises
\*   "result"  a JSON body with a result key (true or false)
\*   "state"   a JSON body without a result key: the registers in snapshot
Response(kind, snapshot) == [kind |-> kind, snapshot |-> snapshot]
NoSnapshot == Snapshot(<< >>, DefaultMeta)

\* WinetAPILocal.get_registers; result.some = FALSE is the returned None.
\* A category that is Python's None has no .value: AttributeError before
\* anything is posted.
get_registers(key, category, resp) ==
    IF category = PyNone
    THEN [reqs |-> << >>, exc |-> "AttributeError",
          result |-> [some |-> FALSE, snapshot |-> NoSnapshot]]
    ELSE
    LET req == GetRequest(key, IF category # CAT_NONE
                               THEN StrOfCategory(category) ELSE "")
    IN IF resp.kind = "error"
       THEN [reqs |-> <<req>>, exc |-> "WinetAPIConnectionError",
             result |-> [some |-> FALSE, snapshot |-> NoSnapshot]]
       ELSE IF resp.kind = "result"
       THEN [reqs |-> <<req>>, exc |-> "none",
             result |-> [some |-> FALSE, snapshot |-> NoSnapshot]]
       ELSE [reqs |-> <<req>>, exc |-> "none",
             result |-> [some |-> TRUE, snapshot |-> resp.snapshot]]

\* WinetAPILocal.set_register with key="002", memory=1; a result that is not
\* true is logged only
set_register(registerid, value, resp) ==
    [reqs |-> <<SetRequest("002", 1, registerid, value)>>,
     exc |-> IF resp.kind = "error" THEN "WinetAPIConnectionError" ELSE "none"]

-----------------------------------------------------------------------------
(* CircularApiClient: the control client *)

set_fan_speed(value, resp) ==
    set_register(FAN_AR_SPEED,
                 clamp(IntOf(value), MIN_FAN_SPEED, MAX_FAN_SPEED), resp)

set_power(value, resp) ==
    set_register(POWER_SET, clamp(IntOf(value), MIN_POWER, MAX_POWER), resp)

set_delta_temp(value) ==
    clamp(IntOf(value), MIN_DELTA_ECOMODE_TEMP, MAX_DELTA_ECOMODE_TEMP)

set_temperature(value, resp) ==
    set_register(TEMPERATURE_SET,
                 IntOf(clamp(value, FloatOf(MIN_THERMOSTAT_TEMP),
                             FloatOf(MAX_THERMOSTAT_TEMP))), resp)

NoRequest == [reqs |-> << >>, exc |-> "none"]

\* eco_mode_drive with the gap compared by < instead of <=
eco_mode_drive_StrictGap(d, count, delta, resp) ==
    IF d.eco_mode_drive_activated /\ count > 0
    THEN IF d.status = ST_ECO_STOP /\ count = 1
         THEN IF d.temperature_set - d.temperature_read < delta
              THEN [count |-> count, log |-> "ECODRIVE - Start Begin",
                    net |-> set_temperature(FloatOf(d.temperature_read + delta), resp)]
              ELSE [count |-> count, log |-> "", net |-> NoRequest]
         ELSE IF d.status = ST_WORK /\ count > 0
         THEN [count |-> 0, log |-> "ECODRIVE - Start Completed",
               net |-> set_temperature(FloatOf(d.temperature_set), resp)]
         ELSE [count |-> count, log |-> "", net |-> NoRequest]
    ELSE [count |-> count, log |-> "", net |-> NoRequest]

\* eco_mode_drive nudging with any number of requests pending
eco_mode_drive_AnyPending(d, count, delta, resp) ==
    IF d.eco_mode_drive_activated /\ count > 0
    THEN IF d.status = ST_ECO_STOP
         THEN IF d.temperature_set - d.temperature_read <= delta
              THEN [count |-> count, log |-> "ECODRIVE - Start Begin",
                    net |-> set_temperature(FloatOf(d.temperature_read + delta), resp)]
              ELSE [count |-> count, log |-> "", net |-> NoRequest]
         ELSE IF d.status = ST_WORK /\ count > 0
         THEN [count |-> 0, log |-> "ECODRIVE - Start Completed",
               net |-> set_temperature(FloatOf(d.temperature_set), resp)]
         ELSE [count |-> count, log |-> "", net |-> NoRequest]
    ELSE [count |-> count, log |-> "", net |-> NoRequest]

\* eco_mode_drive without the test of eco_mode_drive_activated
eco_mode_drive_IgnoresSwitch(d, count, delta, resp) ==
    IF count > 0
    THEN IF d.status = ST_ECO_STOP /\ count = 1
         THEN IF d.temperature_set - d.temperature_read <= delta
              THEN [count |-> count, log |-> "ECODRIVE - Start Begin",
                    net |-> set_temperature(FloatOf(d.temperature_read + delta), resp)]
              ELSE [count |-> count, log |-> "", net |-> NoRequest]
         ELSE IF d.status = ST_WORK /\ count > 0
         THEN [count |-> 0, log |-> "ECODRIVE - Start Completed",
               net |-> set_temperature(FloatOf(d.temperature_set), resp)]
         ELSE [count |-> count, log |-> "", net |-> NoRequest]
    ELSE [count |-> count, log |-> "", net |-> NoRequest]

\* CircularApiClient.eco_mode_drive: the counter after it, the write it
\* made and the branch it logged
eco_mode_drive(d, count, delta, resp) ==
    IF d.eco_mode_drive_activated /\ count > 0
    THEN IF d.status = ST_ECO_STOP /\ count = 1
         THEN IF d.temperature_set - d.temperature_read <= delta
              THEN [count |-> count, log |-> "ECODRIVE - Start Begin",
                    net |-> set_temperature(FloatOf(d.temperature_read + delta), resp)]
              ELSE [count |-> count, log |-> "", net |-> NoRequest]
         ELSE IF d.status = ST_WORK /\ count > 0
         THEN [count |-> 0, log |-> "ECODRIVE - Start Completed",
               net |-> set_temperature(FloatOf(d.temperature_set), resp)]
         ELSE [count |-> count, log |-> "", net |-> NoRequest]
    ELSE [count |-> count, log |-> "", net |-> NoRequest]

\* turn_on without the early return
turn_on_NoStatusCheck(d, resp) ==
    LET r == get_registers(WinetRegisterKey.CHANGE_STATUS, CAT_NONE, resp)
    IN [reqs |-> r.reqs, exc |-> r.exc]

turn_on(d, resp) ==
    IF d.status # ST_OFF THEN NoRequest
    ELSE LET r == get_registers(WinetRegisterKey.CHANGE_STATUS, CAT_NONE, resp)
         IN [reqs |-> r.reqs, exc |-> r.exc]

turn_off(d, resp) ==
    IF d.status = ST_OFF THEN NoRequest
    ELSE LET r == get_registers(WinetRegisterKey.CHANGE_STATUS, CAT_NONE, resp)
         IN [reqs |-> r.reqs, exc |-> r.exc]

\* CircularApiClient.set_temperature_ask_by_external_entity: the data after
\* it and the write it made; the value is recorded after the awaited write,
\* so not when the write raises
set_temperature_ask_by_external_entity(d, value, resp) ==
    IF /\ d.auto_regulated_temperature
       /\ d.status = ST_WORK
       /\ value # FloatOf(d.temperature_set)
    THEN LET w == set_temperature(value, resp) IN
         [d |-> IF w.exc = "none"
                THEN [d EXCEPT !.temperature_ask_by_external_entity = value]
                ELSE d,
          net |-> w]
    ELSE [d |-> d, net |-> NoRequest]

\* an acquire that succeeds on a guard already held
try_acquire_Reentrant(lock, t) == [ok |-> TRUE, lock |-> t]

\* the non-blocking acquire of _update_lock by caller t
try_acquire(lock, t) ==
    IF lock = 0 THEN [ok |-> TRUE, lock |-> t] ELSE [ok |-> FALSE, lock |-> lock]

-----------------------------------------------------------------------------
(* HTTPRequestExecutor: one request with retries over a session *)

\* winet/HTTPRequestExecutor.py, line 24
DEFAULT_RETRIES == 3
\* http.HTTPStatus.OK
HTTP_OK == 200

\* an exception object; NoException is Python's None.  wraps names the
\* exception it carries: no constructor of exceptions.py stores one.
Exception(type) == [type |-> type, wraps |-> "none"]
NoException == Exception("none")

\* what `raise WinetAPIConnectionError(msg, exc)` raises: __init__ itself
\* raises exc when it is given one, so the new object never leaves the
\* constructor
WinetAPIConnectionError(exc) ==
    IF exc # NoException THEN exc ELSE Exception("WinetAPIConnectionError")

\* what one call returns to its caller, or the exception that leaves it
NoValue == [type |-> "none", body |-> 0]
Returned(v) == [kind |-> "returned", value |-> v, exc |-> NoException]
Raising(e) == [kind |-> "raised", value |-> NoValue, exc |-> e]
NoResult == [kind |-> "none", value |-> NoValue, exc |-> NoException]

\* what the network does to one request: session.get / session.post raises
\* exc, or a response arrives with a status and a body that is JSON or not
Raises(exc) ==
    [kind |-> "raises", exc |-> exc, status |-> 0, json |-> FALSE, body |-> 0]
Answers(status, json, body) ==
    [kind |-> "response", exc |-> "none", status |-> status, json |-> json,
     body |-> body]

\* HTTPRequestExecutor._handle_response: a body that is not JSON is returned
\* as text
handle_response(response) ==
    IF response.status # HTTP_OK
    THEN Raising(WinetAPIConnectionError(NoException))
    ELSE IF response.json
    THEN Returned([type |-> "json", body |-> response.body])
    ELSE Returned([type |-> "text", body |-> response.body])

\* HTTPRequestExecutor._execute_single: a request that is neither GET nor
\* POST raises before anything is sent; outcome is what the network does to
\* a request that is sent
execute_single(method, outcome) ==
    IF method \notin {"GET", "POST"}
    THEN Raising(WinetAPIConnectionError(NoException))
    ELSE IF outcome.kind = "raises"
    THEN IF outcome.exc \in {"ServerDisconnectedError", "ClientConnectorError",
                             "ClientOSError", "ConnectionError"}
         THEN Raising(WinetAPIConnectionError(Exception(outcome.exc)))
         ELSE Raising(Exception(outcome.exc))
    ELSE handle_response(outcome)

\* the except clause of the retry loop with TimeoutError left out
is_retried_NoTimeout(exc) ==
    exc.type \in {"ServerDisconnectedError", "ClientConnectorError",
                  "ClientOSError", "ConnectionError", "UnboundLocalError"}

\* the except clause of the retry loop, lines 211-218
is_retried(exc) ==
    exc.type \in {"TimeoutError", "ServerDisconnectedError", "ClientConnectorError",
                  "ClientOSError", "ConnectionError", "UnboundLocalError"}

\* the handler of the retry loop that retries a non-200 answer as well
after_single_RetriesStatus(h, r) ==
    IF r.kind = "returned" THEN [h EXCEPT !.pc = "finally", !.result = r]
    ELSE IF h.attempt + 1 < h.max_retries
    THEN [h EXCEPT !.pc = "sleep", !.last_exception = r.exc, !.attempt = @ + 1]
    ELSE [h EXCEPT !.pc = "finally", !.last_exception = r.exc, !.attempt = @ + 1,
                   !.result = Raising(WinetAPIConnectionError(r.exc))]

\* _execute_with_retry, lines 209-235, once _execute_single has ended with r:
\* a value is returned, an exception of the except clause is counted and
\* either slept on or raised, any other exception leaves the loop
after_single(h, r) ==
    IF r.kind = "returned" THEN [h EXCEPT !.pc = "finally", !.result = r]
    ELSE IF ~is_retried(r.exc) THEN [h EXCEPT !.pc = "finally", !.result = r]
    ELSE IF h.attempt + 1 < h.max_retries
    THEN [h EXCEPT !.pc = "sleep", !.last_exception = r.exc, !.attempt = @ + 1]
    ELSE [h EXCEPT !.pc = "finally", !.last_exception = r.exc, !.attempt = @ + 1,
                   !.result = Raising(WinetAPIConnectionError(r.exc))]

\* a finally that closes whatever session the call used
close_session_Always(h) ==
    [h EXCEPT !.closed[h.session_to_use] = @ + 1]

\* execute, lines 184-186: the session is closed when this call created it
close_session(h) ==
    IF h.created_session /\ h.session_to_use # "none"
    THEN [h EXCEPT !.closed[h.session_to_use] = @ + 1]
    ELSE h

\* HTTPRequestExecutor.__init__ with the defaults and no session, before any
\* call.  sent lists the network outcomes of the requests of the current
\* call, delays counts its asyncio.sleep calls, closed the close() calls it
\* made on the caller's session and on the one it created.
NoExecutor ==
    [session |-> "none", max_retries |-> DEFAULT_RETRIES,
     pc |-> "idle", method |-> "POST",
     session_to_use |-> "none", created_session |-> FALSE,
     last_exception |-> NoException, attempt |-> 0,
     sent |-> << >>, delays |-> 0, result |-> NoResult,
     closed |-> [supplied |-> 0, created |-> 0]]

-----------------------------------------------------------------------------
(* History variables *)

\* plain dictionary overwrite-merge of one snapshot's pairs into a mapping
\* (a function from the ids present to their values): the last pair of an
\* id wins, the ids the snapshot does not name keep their value
DictOverwrite(m, pairs) ==
    LET keys == {pairs[i][1] : i \in 1 .. Len(pairs)}
        last(k) == CHOOSE i \in 1 .. Len(pairs) :
                       /\ pairs[i][1] = k
                       /\ \A j \in (i + 1) .. Len(pairs) : pairs[j][1] # k
    IN [k \in (DOMAIN m) \cup keys |->
            IF k \in keys THEN pairs[last(k)][2] ELSE m[k]]

\* the eco-mode handshake as the host sees it:
\*   "requested"  start_eco_mode_heating was called with no request pending;
\*                setpoint is temperature_set at that moment
\*   "nudged"     eco_mode_drive has written the forced value nudge
\*   "echoed"     a category-2 poll has read that forced value back
\*   "broken"     anything else touched the setpoint or the counter meanwhile
NoDesired == [phase |-> "none", setpoint |-> 0, nudge |-> -1]
Broken == [phase |-> "broken", setpoint |-> 0, nudge |-> -1]

DesiredAfterUpdate(h, old_set, new_set) ==
    IF h.phase \in {"nudged", "echoed"}
    THEN IF new_set = h.nudge THEN [h EXCEPT !.phase = "echoed"]
         ELSE IF new_set = old_set THEN h
         ELSE Broken
    ELSE IF h.phase = "requested" /\ new_set # old_set
    THEN Broken
    ELSE h

-----------------------------------------------------------------------------
(* Operations *)

\* the arguments and the outcome of a call of update; NoUpdate stands for
\* no such call
LastUpdate(newdata, category, exc) ==
    [some |-> TRUE, newdata |-> newdata, category |-> category, exc |-> exc]
NoUpdate == [some |-> FALSE, newdata |-> NoSnapshot, category |-> CAT_NONE,
             exc |-> "none"]

\* what a call of _get_register_value gave: the value returned, if any, and
\* the text of the error raised and of the line logged, if any
Lookup(r) ==
    [returned |-> IF r.found THEN {r.value} ELSE {},
     message |-> r.message, logged |-> r.logged]
NoLookup == [returned |-> {}, message |-> << >>, logged |-> << >>]

\* ret is the set get_changed_fields returns, {} for the operations that
\* return None; last_update is, for an update, that call, and for a
\* get_changed_fields, the update it comes right after; lookup is what
\* _get_register_value gave
Out(op, arg, reqs, exc, log) ==
    [op |-> op, arg |-> arg, reqs |-> reqs, exc |-> exc, log |-> log, ret |-> {},
     last_update |-> NoUpdate, lookup |-> NoLookup]
NoOut == Out("init", 0, << >>, "none", "")

\* no thread is inside update or get_changed_fields.  data_lock is the
\* holder of _data_lock (0: free); at is the position of each thread; newdata,
\* category and exc are the arguments and the outcome of its update; fields
\* is the local copy of its get_changed_fields; owed is history: the names
\* updates have marked and no get_changed_fields has copied yet
NoThreads ==
    [data_lock |-> 0,
     at |-> [t \in 1 .. NumCallers |-> "idle"],
     newdata |-> [t \in 1 .. NumCallers |-> NoSnapshot],
     category |-> [t \in 1 .. NumCallers |-> CAT_NONE],
     exc |-> [t \in 1 .. NumCallers |-> "none"],
     fields |-> [t \in 1 .. NumCallers |-> {}],
     owed |-> {}]
NoCycle == [result |-> "none", reqs |-> << >>, steps |-> 0, eco |-> 0, exc |-> "none"]

Callers == 1 .. NumCallers

Init ==
    /\ data = InitData
    /\ count_delta_ecomode_asked = 0
    /\ delta_ecomode = 0
    /\ update_lock = 0
    /\ pc = [t \in Callers |-> "idle"]
    /\ cycle = [t \in Callers |-> NoCycle]
    /\ out = NoOut
    /\ folded = << >>
    /\ desired = NoDesired
    /\ http = NoExecutor
    /\ threads = NoThreads

\* _data_lock.acquire() of the with statement that goes through although the
\* lock is held
data_lock_acquire_NoExclusion(lock, t) ==
    [ok |-> TRUE, lock |-> t]

\* _data_lock.acquire() of the with statement, by thread t: it blocks while
\* the lock is held (ok = FALSE: the thread stays where it is)
data_lock_acquire(lock, t) ==
    [ok |-> lock = 0, lock |-> IF lock = 0 THEN t ELSE lock]

\* line 149 logs a register whose value the snapshot changes
LogsChange(params, new_params) ==
    \E i \in 1 .. Len(new_params) :
        LET before == DictSetAll(DictSetAll(<< >>, params), SubSeq(new_params, 1, i - 1))
            r == get_register_value(before, new_params[i][1])
        IN r.found /\ r.value # new_params[i][2]

\* a host calls CircularApiData.update(newdata, category)
Update(newdata, category) ==
    \E r \in {update(data, newdata, category)} :
    /\ data' = r.d
    /\ out' = [Out("update", category, << >>, r.exc,
                   IF LogsChange(data.params, newdata.params) THEN "changed" ELSE "")
                  EXCEPT !.last_update = LastUpdate(newdata, category, r.exc)]
    /\ folded' = DictOverwrite(folded, newdata.params)
    /\ desired' = DesiredAfterUpdate(desired, data.temperature_set, r.d.temperature_set)
    /\ UNCHANGED <<count_delta_ecomode_asked, delta_ecomode, update_lock, pc, cycle>>
    /\ UNCHANGED <<http, threads>>

\* CircularApiData._get_register_value(registerid) on the merged mapping
GetRegisterValue(registerid) ==
    \E r \in {get_register_value(data.params, registerid)} :
    /\ out' = [Out("get_register_value", registerid, << >>,
                   IF r.found THEN "none" ELSE "WinetAPIError", "")
                  EXCEPT !.lookup = Lookup(r)]
    /\ UNCHANGED <<data, count_delta_ecomode_asked, delta_ecomode, update_lock, pc,
                   cycle, folded, desired>>
    /\ UNCHANGED <<http, threads>>

\* a host calls CircularApiData.get_changed_fields()
GetChangedFields ==
    /\ data' = get_changed_fields(data).d
    /\ out' = [Out("get_changed_fields", Cardinality(data.changed_fields), << >>,
                    "none", "") EXCEPT !.ret = get_changed_fields(data).fields,
                                       !.last_update = IF out.op = "update"
                                                       THEN out.last_update
                                                       ELSE NoUpdate]
    /\ UNCHANGED <<count_delta_ecomode_asked, delta_ecomode, update_lock, pc, cycle,
                   folded, desired>>
    /\ UNCHANGED <<http, threads>>

SetFanSpeed(value, resp) ==
    LET w == set_fan_speed(value, resp) IN
    /\ out' = Out("set_fan_speed", value, w.reqs, w.exc, "")
    /\ UNCHANGED <<data, count_delta_ecomode_asked, delta_ecomode, update_lock, pc,
                   cycle, folded, desired>>
    /\ UNCHANGED <<http, threads>>

SetPower(value, resp) ==
    LET w == set_power(value, resp) IN
    /\ out' = Out("set_power", value, w.reqs, w.exc, "")
    /\ UNCHANGED <<data, count_delta_ecomode_asked, delta_ecomode, update_lock, pc,
                   cycle, folded, desired>>
    /\ UNCHANGED <<http, threads>>

\* set_temperature storing what it wrote in the decoded setpoint
SetTemperature_ReadsBack(value, resp) ==
    LET w == set_temperature(value, resp) IN
    /\ out' = Out("set_temperature", value, w.reqs, w.exc, "")
    /\ data' = [data EXCEPT !.temperature_set = w.reqs[1].value]
    /\ desired' = IF desired.phase = "none" THEN desired ELSE Broken
    /\ UNCHANGED <<count_delta_ecomode_asked, delta_ecomode, update_lock, pc,
                   cycle, folded>>
    /\ UNCHANGED <<http, threads>>

SetTemperature(value, resp) ==
    LET w == set_temperature(value, resp) IN
    /\ out' = Out("set_temperature", value, w.reqs, w.exc, "")
    /\ desired' = IF desired.phase = "none" THEN desired ELSE Broken
    /\ UNCHANGED <<data, count_delta_ecomode_asked, delta_ecomode, update_lock, pc,
                   cycle, folded>>
    /\ UNCHANGED <<http, threads>>

SetDeltaTemp(value) ==
    /\ delta_ecomode' = set_delta_temp(value)
    /\ out' = Out("set_delta_temp", value, << >>, "none", "")
    /\ UNCHANGED <<data, count_delta_ecomode_asked, update_lock, pc, cycle, folded,
                   desired>>
    /\ UNCHANGED <<http, threads>>

\* the counter is unbounded in the code; the model stops counting at MaxCount
StartEcoModeHeating ==
    /\ count_delta_ecomode_asked < MaxCount
    /\ count_delta_ecomode_asked' = count_delta_ecomode_asked + 1
    /\ out' = Out("start_eco_mode_heating", 0, << >>, "none", "")
    /\ desired' = IF count_delta_ecomode_asked = 0
                  THEN [phase |-> "requested", setpoint |-> data.temperature_set,
                        nudge |-> -1]
                  ELSE Broken
    /\ UNCHANGED <<data, delta_ecomode, update_lock, pc, cycle, folded>>
    /\ UNCHANGED <<http, threads>>

EcoModeDrive(resp) ==
    LET r == eco_mode_drive(data, count_delta_ecomode_asked, delta_ecomode, resp) IN
    /\ count_delta_ecomode_asked' = r.count
    /\ out' = Out("eco_mode_drive", 0, r.net.reqs, r.net.exc, r.log)
    /\ desired' = IF r.log = "ECODRIVE - Start Begin"
                     /\ desired.phase \in {"requested", "nudged", "echoed"}
                  THEN [desired EXCEPT !.phase = "nudged",
                                       !.nudge = r.net.reqs[1].value]
                  ELSE desired
    /\ UNCHANGED <<data, delta_ecomode, update_lock, pc, cycle, folded>>
    /\ UNCHANGED <<http, threads>>

TurnOn(resp) ==
    LET r == turn_on(data, resp) IN
    /\ out' = Out("turn_on", 0, r.reqs, r.exc, "")
    /\ UNCHANGED <<data, count_delta_ecomode_asked, delta_ecomode, update_lock, pc,
                   cycle, folded, desired>>
    /\ UNCHANGED <<http, threads>>

TurnOff(resp) ==
    LET r == turn_off(data, resp) IN
    /\ out' = Out("turn_off", 0, r.reqs, r.exc, "")
    /\ UNCHANGED <<data, count_delta_ecomode_asked, delta_ecomode, update_lock, pc,
                   cycle, folded, desired>>
    /\ UNCHANGED <<http, threads>>

EcoModeDriveOn ==
    /\ data' = [data EXCEPT !.eco_mode_drive_activated = TRUE]
    /\ out' = Out("eco_mode_drive_on", 0, << >>, "none", "")
    /\ UNCHANGED <<count_delta_ecomode_asked, delta_ecomode, update_lock, pc, cycle,
                   folded, desired>>
    /\ UNCHANGED <<http, threads>>

EcoModeDriveOff ==
    /\ data' = [data EXCEPT !.eco_mode_drive_activated = FALSE]
    /\ out' = Out("eco_mode_drive_off", 0, << >>, "none", "")
    /\ UNCHANGED <<count_delta_ecomode_asked, delta_ecomode, update_lock, pc, cycle,
                   folded, desired>>
    /\ UNCHANGED <<http, threads>>

AutoRegulatedTemperatureOn ==
    /\ data' = [data EXCEPT !.auto_regulated_temperature = TRUE]
    /\ out' = Out("auto_regulated_temperature_on", 0, << >>, "none", "")
    /\ UNCHANGED <<count_delta_ecomode_asked, delta_ecomode, update_lock, pc, cycle,
                   folded, desired>>
    /\ UNCHANGED <<http, threads>>

AutoRegulatedTemperatureOff ==
    /\ data' = [data EXCEPT !.auto_regulated_temperature = FALSE]
    /\ out' = Out("auto_regulated_temperature_off", 0, << >>, "none", "")
    /\ UNCHANGED <<count_delta_ecomode_asked, delta_ecomode, update_lock, pc, cycle,
                   folded, desired>>
    /\ UNCHANGED <<http, threads>>

SetTemperatureAskByExternalEntity(value, resp) ==
    LET r == set_temperature_ask_by_external_entity(data, value, resp) IN
    /\ data' = r.d
    /\ out' = Out("set_temperature_ask_by_external_entity", value,
                  r.net.reqs, r.net.exc, "")
    /\ UNCHANGED <<count_delta_ecomode_asked, delta_ecomode, update_lock, pc, cycle,
                   folded, desired>>
    /\ UNCHANGED <<http, threads>>

\* the schedule update_data builds at lines 490-515, keys by member name
Updates ==
    << [name |-> "hardware", key |-> "UPDATE_HARDWARE", category |-> PyNone],
       [name |-> "category_2", key |-> "POLL_DATA", category |-> POLL_CATEGORY_2],
       [name |-> "category_4", key |-> "POLL_DATA", category |-> POLL_CATEGORY_4],
       [name |-> "category_6", key |-> "POLL_DATA", category |-> POLL_CATEGORY_6] >>

\* one pass of the body of update_data's for loop, for the entry u and the
\* answer resp: the entry polls, feeds a result that is not None to update
\* and drains the changed fields; an exception of the entry is logged and
\* the loop goes on.  acc holds the data, the two history variables and the
\* requests made so far; g is what get_registers did, r what update did.
poll_update(acc, g, r) ==
    [data |-> IF r.exc = "none" THEN get_changed_fields(r.d).d ELSE r.d,
     folded |-> DictOverwrite(acc.folded, g.result.snapshot.params),
     desired |-> DesiredAfterUpdate(acc.desired, acc.data.temperature_set,
                                    r.d.temperature_set),
     reqs |-> acc.reqs \o g.reqs,
     steps |-> acc.steps + 1]

poll_feed(acc, u, g) ==
    IF g.exc = "none" /\ g.result.some
    THEN poll_update(acc, g, update(acc.data, g.result.snapshot, u.category))
    ELSE [acc EXCEPT !.reqs = @ \o g.reqs, !.steps = @ + 1]

poll_step(acc, u, resp) ==
    poll_feed(acc, u, get_registers(WinetRegisterKey[u.key], u.category, resp))

\* the for loop of update_data from entry i on, over the answers resps
RECURSIVE run_updates(_, _, _)
run_updates(acc, i, resps) ==
    IF i > Len(Updates) THEN acc
    ELSE run_updates(poll_step(acc, Updates[i], resps[i]), i + 1, resps)

Others == <<count_delta_ecomode_asked, delta_ecomode, update_lock, pc, cycle,
            folded, desired, http>>

\* update, line 161: thread t enters the with statement
UpdateAcquire(t, newdata, category) ==
    \E a \in {data_lock_acquire(threads.data_lock, t)} :
    /\ threads.at[t] = "idle"
    /\ a.ok
    /\ threads' = [threads EXCEPT !.data_lock = a.lock,
                                  !.at[t] = "update.merge",
                                  !.newdata[t] = newdata,
                                  !.category[t] = category,
                                  !.exc[t] = "none"]
    /\ UNCHANGED <<data, out>>
    /\ UNCHANGED Others

\* update, lines 163-178: the merge and the metadata
UpdateMerge(t) ==
    /\ threads.at[t] = "update.merge"
    /\ data' = update_merge(data, threads.newdata[t])
    /\ threads' = [threads EXCEPT !.at[t] = "update.decode"]
    /\ UNCHANGED out
    /\ UNCHANGED Others

\* update, lines 179-202: the product model, the decoding and the marking;
\* the names the call marks are owed to the drains from here on
UpdateDecode(t) ==
    \E r \in {update_decode(data, threads.newdata[t], threads.category[t])},
       m \in {update_decode([data EXCEPT !.changed_fields = {}], threads.newdata[t],
                            threads.category[t]).d.changed_fields} :
    /\ threads.at[t] = "update.decode"
    /\ data' = r.d
    /\ threads' = [threads EXCEPT !.at[t] = "update.release",
                                  !.exc[t] = r.exc,
                                  !.owed = @ \cup m]
    /\ UNCHANGED out
    /\ UNCHANGED Others

\* update: the with statement releases the lock, and the call returns or
\* raises
UpdateRelease(t) ==
    /\ threads.at[t] = "update.release"
    /\ threads' = [threads EXCEPT !.data_lock = 0,
                                  !.at[t] = "idle",
                                  !.newdata[t] = NoSnapshot,
                                  !.category[t] = CAT_NONE,
                                  !.exc[t] = "none"]
    /\ out' = [Out("update", threads.category[t], << >>, threads.exc[t], "")
                  EXCEPT !.last_update = LastUpdate(threads.newdata[t],
                                                    threads.category[t], threads.exc[t])]
    /\ UNCHANGED data
    /\ UNCHANGED Others

\* get_changed_fields, line 137: thread t enters the with statement
DrainAcquire(t) ==
    \E a \in {data_lock_acquire(threads.data_lock, t)} :
    /\ threads.at[t] = "idle"
    /\ a.ok
    /\ threads' = [threads EXCEPT !.data_lock = a.lock, !.at[t] = "drain.copy"]
    /\ UNCHANGED <<data, out>>
    /\ UNCHANGED Others

\* get_changed_fields, line 138: fields = self._changed_fields.copy()
DrainCopy(t) ==
    /\ threads.at[t] = "drain.copy"
    /\ threads' = [threads EXCEPT !.at[t] = "drain.clear",
                                  !.fields[t] = data.changed_fields,
                                  !.owed = @ \ data.changed_fields]
    /\ UNCHANGED <<data, out>>
    /\ UNCHANGED Others

\* get_changed_fields, line 139: self._changed_fields.clear()
DrainClear(t) ==
    /\ threads.at[t] = "drain.clear"
    /\ data' = [data EXCEPT !.changed_fields = {}]
    /\ threads' = [threads EXCEPT !.at[t] = "drain.return"]
    /\ UNCHANGED out
    /\ UNCHANGED Others

\* get_changed_fields, line 140: return fields, and the with statement
\* releases the lock
DrainReturn(t) ==
    /\ threads.at[t] = "drain.return"
    /\ threads' = [threads EXCEPT !.data_lock = 0,
                                  !.at[t] = "idle",
                                  !.fields[t] = {}]
    /\ out' = [Out("get_changed_fields", t, << >>, "none", "")
                  EXCEPT !.ret = threads.fields[t]]
    /\ UNCHANGED data
    /\ UNCHANGED Others

\* update_data, line 482: caller t tries the guard; a caller that finds it
\* taken logs and returns
UpdateDataCall(t) ==
    LET a == try_acquire(update_lock, t) IN
    /\ pc[t] = "idle"
    /\ update_lock' = a.lock
    /\ IF a.ok
       THEN /\ pc' = [pc EXCEPT ![t] = "try"]
            /\ cycle' = [cycle EXCEPT ![t] = [NoCycle EXCEPT !.result = "running"]]
            /\ out' = Out("update_data", t, << >>, "none",
                          "Updating data from Winet module")
       ELSE /\ pc' = pc
            /\ cycle' = [cycle EXCEPT ![t] = [NoCycle EXCEPT !.result = "rejected"]]
            /\ out' = Out("update_data", t, << >>, "none",
                          "Update already in progress, skipping duplicate request")
    /\ UNCHANGED <<data, count_delta_ecomode_asked, delta_ecomode, folded, desired>>
    /\ UNCHANGED <<http, threads>>

\* update_data, lines 486-546: the body of the try.  Building the schedule
\* looks every key up in WinetRegisterKey; a name that is no member raises
\* AttributeError before the loop starts.
UpdateDataTry(t, responses, wresponses) ==
    /\ pc[t] = "try"
    /\ pc' = [pc EXCEPT ![t] = "finally"]
    /\ IF \A i \in 1 .. Len(Updates) : Updates[i].key \in DOMAIN WinetRegisterKey
       THEN \E resps \in [1 .. Len(Updates) -> responses], wresp \in wresponses :
            \E r \in {run_updates([data |-> data, folded |-> folded,
                                   desired |-> desired, reqs |-> << >>,
                                   steps |-> 0], 1, resps)} :
            \E e \in {eco_mode_drive(r.data, count_delta_ecomode_asked,
                                     delta_ecomode, wresp)} :
               /\ data' = r.data
               /\ folded' = r.folded
               /\ desired' = IF e.log = "ECODRIVE - Start Begin"
                                /\ r.desired.phase \in {"requested", "nudged", "echoed"}
                             THEN [r.desired EXCEPT !.phase = "nudged",
                                                    !.nudge = e.net.reqs[1].value]
                             ELSE r.desired
               /\ count_delta_ecomode_asked' = e.count
               /\ cycle' = [cycle EXCEPT ![t] =
                               [result |-> "running", reqs |-> r.reqs \o e.net.reqs,
                                steps |-> r.steps, eco |-> 1, exc |-> e.net.exc]]
       ELSE /\ cycle' = [cycle EXCEPT ![t].exc = "AttributeError"]
            /\ UNCHANGED <<data, folded, desired, count_delta_ecomode_asked>>
    /\ out' = Out("update_data.try", t, cycle'[t].reqs, cycle'[t].exc, "")
    /\ UNCHANGED <<delta_ecomode, update_lock>>
    /\ UNCHANGED <<http, threads>>

\* update_data releasing the guard at the end of the try body instead of in
\* a finally: an exception of the body leaves the guard taken
UpdateDataFinally_ReleaseOnReturn(t) ==
    /\ pc[t] = "finally"
    /\ pc' = [pc EXCEPT ![t] = "idle"]
    /\ update_lock' = IF cycle[t].exc = "none" THEN 0 ELSE update_lock
    /\ cycle' = [cycle EXCEPT ![t].result =
                     IF cycle[t].exc = "none" THEN "returned" ELSE "raised"]
    /\ out' = Out("update_data.finally", t, cycle[t].reqs, cycle[t].exc, "")
    /\ UNCHANGED <<data, count_delta_ecomode_asked, delta_ecomode, folded, desired>>
    /\ UNCHANGED <<http, threads>>

\* update_data, lines 548-549: the finally releases the guard and the call
\* returns, or the exception of the body goes on to the caller
UpdateDataFinally(t) ==
    /\ pc[t] = "finally"
    /\ pc' = [pc EXCEPT ![t] = "idle"]
    /\ update_lock' = 0
    /\ cycle' = [cycle EXCEPT ![t].result =
                     IF cycle[t].exc = "none" THEN "returned" ELSE "raised"]
    /\ out' = Out("update_data.finally", t, cycle[t].reqs, cycle[t].exc, "")
    /\ UNCHANGED <<data, count_delta_ecomode_asked, delta_ecomode, folded, desired>>
    /\ UNCHANGED <<http, threads>>

\* HTTPRequestExecutor(session, max_retries): a new executor
HTTPRequestExecutorInit(session, max_retries) ==
    /\ http.pc \in {"idle", "done"}
    /\ http' = [NoExecutor EXCEPT !.session = session, !.max_retries = max_retries]
    /\ UNCHANGED <<data, count_delta_ecomode_asked, delta_ecomode, update_lock, pc,
                   cycle, out, folded, desired, threads>>

\* execute, lines 174-182, up to the first test of the while of
\* _execute_with_retry (lines 205-208); a loop that is not entered goes to
\* the raise of line 238
Execute(method) ==
    /\ http.pc \in {"idle", "done"}
    /\ \E h \in {[http EXCEPT
                     !.method = method,
                     !.session_to_use = IF http.session = "none" THEN "created"
                                        ELSE http.session,
                     !.created_session = (http.session = "none"),
                     !.last_exception = NoException,
                     !.attempt = 0,
                     !.sent = << >>,
                     !.delays = 0,
                     !.result = NoResult,
                     !.closed = [supplied |-> 0, created |-> 0]]} :
           http' = IF h.attempt < h.max_retries
                   THEN [h EXCEPT !.pc = "single"]
                   ELSE [h EXCEPT !.pc = "finally",
                                  !.result = Raising(WinetAPIConnectionError(
                                                         h.last_exception))]
    /\ UNCHANGED <<data, count_delta_ecomode_asked, delta_ecomode, update_lock, pc,
                   cycle, out, folded, desired, threads>>

\* one pass of the body of the while: _execute_single, then the handler
ExecuteSingle(outcome) ==
    /\ http.pc = "single"
    /\ http' = after_single(
                   IF http.method \in {"GET", "POST"}
                   THEN [http EXCEPT !.sent = Append(@, outcome)] ELSE http,
                   execute_single(http.method, outcome))
    /\ UNCHANGED <<data, count_delta_ecomode_asked, delta_ecomode, update_lock, pc,
                   cycle, out, folded, desired, threads>>

\* line 229: asyncio.sleep(retry_delay) ends and the while goes round
Sleep ==
    /\ http.pc = "sleep"
    /\ http' = [http EXCEPT !.pc = "single", !.delays = @ + 1]
    /\ UNCHANGED <<data, count_delta_ecomode_asked, delta_ecomode, update_lock, pc,
                   cycle, out, folded, desired, threads>>

\* execute, lines 184-186: the finally, then the call is over
ExecuteFinally ==
    /\ http.pc = "finally"
    /\ http' = [close_session(http) EXCEPT !.pc = "done"]
    /\ UNCHANGED <<data, count_delta_ecomode_asked, delta_ecomode, update_lock, pc,
                   cycle, out, folded, desired, threads>>

-----------------------------------------------------------------------------
(* The merge of snapshots, on its own *)

SeqsUpTo(S, n) == UNION {[1 .. k -> S] : k \in 0 .. n}

Categories == {CAT_NONE, POLL_CATEGORY_2, POLL_CATEGORY_4, POLL_CATEGORY_6}

MergeIds == {STATUS, FAN_AR_SPEED}
MergeVals == {ST_OFF, ST_WORK}

MergeSnapshots ==
    {Snapshot(p, DefaultMeta) : p \in SeqsUpTo(MergeIds \X MergeVals, MaxSnapLen)}

\* the categories of the two registers
MergeCategories == {POLL_CATEGORY_2, POLL_CATEGORY_6}

NextMerge == \E s \in MergeSnapshots, c \in MergeCategories : Update(s, c)

SpecMerge == Init /\ [][NextMerge]_vars

-----------------------------------------------------------------------------
(* The numeric setters, on their own *)

\* the device accepts the write, or the POST fails
WriteResponses == {Response("result", NoSnapshot), Response("error", NoSnapshot)}

\* every float from -6.0 to 42.0 at the model's resolution, and 99.0, 100.0
SetterInputs == ((-6 * Scale) .. (42 * Scale)) \cup {99 * Scale, 100 * Scale}

NextSetters ==
    \E v \in SetterInputs, resp \in WriteResponses :
        \/ SetPower(v, resp)
        \/ SetFanSpeed(v, resp)
        \/ SetTemperature(v, resp)

SpecSetters == Init /\ [][NextSetters]_vars

-----------------------------------------------------------------------------
(* Switching the stove on and off *)

\* what a get-registers POST can be answered
ReadResponses(snapshots) ==
    {Response("error", NoSnapshot), Response("result", NoSnapshot)}
        \cup {Response("state", s) : s \in snapshots}

\* a poll that carries the status register, for every status of the enum
StatusSnapshots ==
    {Snapshot(<< <<STATUS, st>> >>, DefaultMeta) : st \in CircularDeviceStatus}

NextPower ==
    \/ \E s \in StatusSnapshots, c \in {CAT_NONE, POLL_CATEGORY_2} : Update(s, c)
    \/ \E resp \in ReadResponses({NoSnapshot}) : TurnOn(resp)
    \/ \E resp \in ReadResponses({NoSnapshot}) : TurnOff(resp)

SpecPower == Init /\ [][NextPower]_vars

-----------------------------------------------------------------------------
(* The eco-mode drive *)

EcoStatuses == {ST_OFF, ST_WORK, ST_ECO_STOP}
EcoReads == {16, 39}
EcoSets == {18, 21}

\* a category-2 poll: status, probe, setpoint and power
Category2Snapshot(st, read, set) ==
    Snapshot(<< <<STATUS, st>>, <<TEMPERATURE_PROBE, read>>,
                <<TEMPERATURE_SET, set>>, <<POWER_SET, 3>> >>, DefaultMeta)

EcoSnapshots ==
    {Category2Snapshot(st, read, set) :
        st \in EcoStatuses, read \in EcoReads, set \in EcoSets}

\* 2.0 and 7.5
DeltaInputs == {2 * Scale, (15 * Scale) \div 2}

NextEco ==
    \/ \E s \in EcoSnapshots : Update(s, POLL_CATEGORY_2)
    \/ StartEcoModeHeating
    \/ \E resp \in WriteResponses : EcoModeDrive(resp)
    \/ EcoModeDriveOn
    \/ EcoModeDriveOff
    \/ \E v \in DeltaInputs : SetDeltaTemp(v)

SpecEco == Init /\ [][NextEco]_vars

-----------------------------------------------------------------------------
(* The control writes and the polls *)

\* a poll of a stove that is off, and one that carries every register a
\* control write sets
ControlSnapshots ==
    {Category2Snapshot(ST_OFF, 16, 21),
     Snapshot(<< <<STATUS, ST_WORK>>, <<TEMPERATURE_SET, 25>>, <<POWER_SET, 4>>,
                 <<FAN_AR_SPEED, 2>> >>, DefaultMeta)}

\* 2.0 and 25.0
ControlInputs == {2 * Scale, 25 * Scale}

NextControl ==
    \/ \E v \in ControlInputs, resp \in WriteResponses :
           \/ SetPower(v, resp)
           \/ SetFanSpeed(v, resp)
           \/ SetTemperature(v, resp)
    \/ \E resp \in ReadResponses({NoSnapshot}) : TurnOn(resp)
    \/ \E resp \in ReadResponses({NoSnapshot}) : TurnOff(resp)
    \/ \E s \in ControlSnapshots, c \in {POLL_CATEGORY_2, POLL_CATEGORY_6} : Update(s, c)

SpecControl == Init /\ [][NextControl]_vars

-----------------------------------------------------------------------------
(* A host's set_temperature between a poll and the eco-mode drive *)

\* the category-2 poll of a cycle: a stove in ECO_STOP or heating, setpoint 21
RaceSnapshots == {Category2Snapshot(st, 16, 21) : st \in {ST_ECO_STOP, ST_WORK}}

\* 21.0 and 25.0
RaceInputs == {21 * Scale, 25 * Scale}

\* what update_data does after its acquire (the category-2 update, then
\* eco_mode_drive), with the commands a host can issue while the cycle is
\* suspended at a network call
NextRace ==
    \/ \E s \in RaceSnapshots : Update(s, POLL_CATEGORY_2)
    \/ \E resp \in WriteResponses : EcoModeDrive(resp)
    \/ \E v \in RaceInputs, resp \in WriteResponses : SetTemperature(v, resp)
    \/ StartEcoModeHeating
    \/ EcoModeDriveOn

SpecRace == Init /\ [][NextRace]_vars

-----------------------------------------------------------------------------
(* The external entity's temperature *)

ExternalSnapshots ==
    {Category2Snapshot(st, 16, set) : st \in {ST_WORK, ST_ECO_STOP}, set \in {21, 40}}

\* every float from 20.0 to 23.0 at the model's resolution, and 3.0, 45.0
ExternalInputs == ((20 * Scale) .. (23 * Scale)) \cup {3 * Scale, 45 * Scale}

NextExternal ==
    \/ \E s \in ExternalSnapshots : Update(s, POLL_CATEGORY_2)
    \/ AutoRegulatedTemperatureOn
    \/ AutoRegulatedTemperatureOff
    \/ \E v \in ExternalInputs, resp \in WriteResponses :
           SetTemperatureAskByExternalEntity(v, resp)

SpecExternal == Init /\ [][NextExternal]_vars

-----------------------------------------------------------------------------
(* The polling cycle, called by several threads *)

PollSnapshots == {Category2Snapshot(st, 16, 18) : st \in {ST_OFF, ST_WORK}}

NextPoll ==
    \/ \E t \in Callers : UpdateDataCall(t)
    \/ \E t \in Callers :
           UpdateDataTry(t, ReadResponses(PollSnapshots), WriteResponses)
    \/ \E t \in Callers : UpdateDataFinally(t)
    \/ \E s \in PollSnapshots, c \in {POLL_CATEGORY_2, POLL_CATEGORY_4} : Update(s, c)
    \/ GetChangedFields

SpecPoll == Init /\ [][NextPoll]_vars

-----------------------------------------------------------------------------
(* Decoding the polls *)

\* a product model that is no member of WinetProductModel
UnknownModelMeta == [DefaultMeta EXCEPT !.model = 7]

\* polls over the registers of category 2: two complete ones, one without
\* the set temperature, one with the status alone, one with a status that is no
\* member of CircularDeviceStatus, and one of an unknown product model
TemperatureSnapshots ==
    {Category2Snapshot(ST_WORK, 16, 21),
     Category2Snapshot(ST_OFF, 17, 22),
     Snapshot(<< <<TEMPERATURE_PROBE, 16>>, <<POWER_SET, 3>> >>, DefaultMeta),
     Snapshot(<< <<STATUS, ST_WORK>> >>, DefaultMeta),
     Snapshot(<< <<STATUS, 99>> >>, DefaultMeta),
     Snapshot(<< <<TEMPERATURE_PROBE, 16>> >>, UnknownModelMeta)}

NextDecode ==
    \/ \E s \in TemperatureSnapshots,
          c \in {POLL_CATEGORY_2, POLL_CATEGORY_4} : Update(s, c)
    \/ GetChangedFields

SpecDecode == Init /\ [][NextDecode]_vars

\* polls over the registers of category 6: the alarm register with a known
\* code, with a code that is no member of CircularDeviceAlarm (10), with a
\* negative value, or left out; the fan register there or not
AlarmSnapshots ==
    {Snapshot(a \o f, DefaultMeta) :
        a \in {<< >>, << <<ALARMS_BITS, 3>> >>, << <<ALARMS_BITS, 5>> >>,
               << <<ALARMS_BITS, 10>> >>, << <<ALARMS_BITS, -1>> >>},
        f \in {<< >>, << <<FAN_AR_SPEED, 2>> >>, << <<FAN_AR_SPEED, 4>> >>}}

NextAlarm ==
    \/ \E s \in AlarmSnapshots, c \in {CAT_NONE, POLL_CATEGORY_6} : Update(s, c)
    \/ GetChangedFields

SpecAlarm == Init /\ [][NextAlarm]_vars

\* polls of category 2 from a device that has not sent its status yet: the
\* three temperature registers, twice with different values, the probe and
\* the power without the setpoint, and a poll of an unknown product model;
\* then a poll with the status
NoStatusSnapshots ==
    {Snapshot(<< <<TEMPERATURE_PROBE, 16>>, <<TEMPERATURE_SET, 21>>,
                 <<POWER_SET, 3>> >>, DefaultMeta),
     Snapshot(<< <<TEMPERATURE_PROBE, 17>>, <<TEMPERATURE_SET, 22>>,
                 <<POWER_SET, 4>> >>, DefaultMeta),
     Snapshot(<< <<TEMPERATURE_PROBE, 18>>, <<POWER_SET, 5>> >>, DefaultMeta),
     Snapshot(<< <<TEMPERATURE_PROBE, 16>> >>, UnknownModelMeta),
     Snapshot(<< <<STATUS, ST_WORK>> >>, DefaultMeta)}

NextStatus ==
    \/ \E s \in NoStatusSnapshots : Update(s, POLL_CATEGORY_2)
    \/ GetChangedFields

SpecStatus == Init /\ [][NextStatus]_vars

-----------------------------------------------------------------------------
(* Looking a register up *)

\* polls that are merged without any decoding but the status: registers with
\* the values 0 and 5, among them the status (OFF and WORK)
LookupSnapshots ==
    {Snapshot(p, DefaultMeta) :
        p \in {<< <<i, v>> >> : i \in {STATUS, TEMPERATURE_PROBE}, v \in {0, 5}}
              \cup {<< <<POWER_SET, 0>>, <<TEMPERATURE_PROBE, 5>> >>}}

\* the registers looked up: three that the polls may bring and one that no
\* poll brings
LookupIds == {STATUS, TEMPERATURE_PROBE, POWER_SET, FAN_AR_SPEED}

NextLookup ==
    \/ \E s \in LookupSnapshots : Update(s, CAT_NONE)
    \/ \E i \in LookupIds : GetRegisterValue(i)

SpecLookup == Init /\ [][NextLookup]_vars

-----------------------------------------------------------------------------
(* update and get_changed_fields called by several threads *)

\* a complete poll of category 2 and one whose status is no member of
\* CircularDeviceStatus
ThreadSnapshots ==
    {Category2Snapshot(ST_WORK, 16, 21),
     Snapshot(<< <<STATUS, 99>> >>, DefaultMeta)}

NextThreads ==
    \/ \E t \in Callers, s \in ThreadSnapshots,
          c \in {POLL_CATEGORY_2, POLL_CATEGORY_4} : UpdateAcquire(t, s, c)
    \/ \E t \in Callers : UpdateMerge(t)
    \/ \E t \in Callers : UpdateDecode(t)
    \/ \E t \in Callers : UpdateRelease(t)
    \/ \E t \in Callers : DrainAcquire(t)
    \/ \E t \in Callers : DrainCopy(t)
    \/ \E t \in Callers : DrainClear(t)
    \/ \E t \in Callers : DrainReturn(t)

SpecThreads == Init /\ [][NextThreads]_vars

-----------------------------------------------------------------------------
(* The polling cycle against a device that answers every poll alike *)

\* every get-registers POST is answered by a JSON body with a result key
SoftFailures == {Response("result", NoSnapshot)}

NextSoft ==
    \/ \E t \in Callers : UpdateDataCall(t)
    \/ \E t \in Callers : UpdateDataTry(t, SoftFailures, WriteResponses)
    \/ \E t \in Callers : UpdateDataFinally(t)
    \/ \E s \in PollSnapshots, c \in {POLL_CATEGORY_2, POLL_CATEGORY_4} : Update(s, c)
    \/ GetChangedFields

SpecSoft == Init /\ [][NextSoft]_vars

\* every get-registers POST is answered by the registers of category 2
Answered == {Response("state", s) : s \in PollSnapshots}

NextAnswered ==
    \/ \E t \in Callers : UpdateDataCall(t)
    \/ \E t \in Callers : UpdateDataTry(t, Answered, WriteResponses)
    \/ \E t \in Callers : UpdateDataFinally(t)
    \/ \E s \in PollSnapshots, c \in {POLL_CATEGORY_2, POLL_CATEGORY_4} : Update(s, c)
    \/ GetChangedFields

SpecAnswered == Init /\ [][NextAnswered]_vars

\* metadata that differ from the defaults of WinetGetRegisterResult
OtherMeta == [signal |-> 4, name |-> "CIRCULAR10", alr |-> "A01", model |-> 2]

\* a status code that is no member of CircularDeviceStatus
BAD_STATUS == 99

\* a poll whose status register holds that code
BadStatusSnapshots ==
    {Snapshot(<< <<STATUS, BAD_STATUS>>, <<TEMPERATURE_PROBE, 17>> >>, OtherMeta)}

\* every get-registers POST is answered by such a poll
BadStatusAnswers == {Response("state", s) : s \in BadStatusSnapshots}

NextBadStatus ==
    \/ \E t \in Callers : UpdateDataCall(t)
    \/ \E t \in Callers : UpdateDataTry(t, BadStatusAnswers, WriteResponses)
    \/ \E t \in Callers : UpdateDataFinally(t)
    \/ \E s \in {Category2Snapshot(ST_WORK, 16, 18)} \cup BadStatusSnapshots :
           Update(s, POLL_CATEGORY_2)
    \/ GetChangedFields

SpecBadStatus == Init /\ [][NextBadStatus]_vars

-----------------------------------------------------------------------------
(* The HTTP request executor *)

\* the failures of a request that the retry loop is there for
TransientFailures ==
    {"TimeoutError", "ServerDisconnectedError", "ClientConnectorError",
     "ClientOSError", "ConnectionError"}

\* what the network can do to one request: fail, answer 200 with one of two
\* JSON documents, answer 200 with a body that is not JSON, answer 500
HTTPOutcomes ==
    {Raises(e) : e \in TransientFailures}
        \cup {Answers(HTTP_OK, TRUE, 1), Answers(HTTP_OK, TRUE, 2),
              Answers(HTTP_OK, FALSE, 3), Answers(500, TRUE, 4)}

NextHTTP ==
    \/ \E s \in {"none", "supplied"}, n \in 0 .. MaxRetries :
           HTTPRequestExecutorInit(s, n)
    \/ \E m \in {"POST", "PUT"} : Execute(m)
    \/ \E o \in HTTPOutcomes : ExecuteSingle(o)
    \/ Sleep
    \/ ExecuteFinally

SpecHTTP == Init /\ [][NextHTTP]_vars

-----------------------------------------------------------------------------
(* Claims *)

\* C1: after every sequence of updates, whatever their categories, the merged
\* register mapping is the fold of plain dictionary overwrite over the
\* snapshots: it holds exactly the ids some snapshot named, each once, each
\* with the value of the last snapshot that named it.
C1_MergedIsFoldOfOverwrite ==
    LET n == Len(data.params) IN
    /\ \A i, j \in 1 .. n : data.params[i][1] = data.params[j][1] => i = j
    /\ {data.params[i][1] : i \in 1 .. n} = DOMAIN folded
    /\ \A i \in 1 .. n : folded[data.params[i][1]] = data.params[i][2]

\* an update has overwritten a value in a mapping that holds every id
C1_Witness ==
    /\ out.op = "update"
    /\ out.log = "changed"
    /\ Len(data.params) = Cardinality(MergeIds)

\* the register and the range of each numeric setter
SetterRegister(op) ==
    IF op = "set_power" THEN POWER_SET
    ELSE IF op = "set_fan_speed" THEN FAN_AR_SPEED
    ELSE TEMPERATURE_SET
SetterLow(op) ==
    IF op = "set_power" THEN 1 ELSE IF op = "set_fan_speed" THEN 0 ELSE 5
SetterHigh(op) ==
    IF op = "set_power" THEN 5 ELSE IF op = "set_fan_speed" THEN 6 ELSE 40
Setters == {"set_power", "set_fan_speed", "set_temperature"}

\* the last operation was a setter that made exactly one set-register write
OneWrite ==
    /\ Len(out.reqs) = 1
    /\ out.reqs[1].url = "/ajax/set-register"
    /\ out.reqs[1].key = "002"
    /\ out.reqs[1].memory = 1
    /\ out.reqs[1].regId = SetterRegister(out.op)

\* C2 as stated: every setter transmits exactly one write whose value is the
\* input v itself, clamped to the setter's range.
C2_SendsInputClamped ==
    out.op \in Setters =>
        /\ OneWrite
        /\ out.reqs[1].value * Scale =
               IF out.arg < SetterLow(out.op) * Scale THEN SetterLow(out.op) * Scale
               ELSE IF out.arg > SetterHigh(out.op) * Scale THEN SetterHigh(out.op) * Scale
               ELSE out.arg

\* C2, amended: for every finite input v, each setter transmits exactly one
\* set-register write to its register, whose value is the integer n with
\* low <= n <= high that is low when v < low, high when v > high, and v
\* with its fraction dropped (n <= v < n + 1) otherwise; the only exception
\* a setter lets out is the failure of the POST itself.  set_power(0) sends
\* 1, set_power(10) sends 5, set_temperature(-5) sends 5 and
\* set_temperature(99) sends 40.
C2_SendsTruncatedInputClamped ==
    out.op \in Setters =>
        LET n == out.reqs[1].value
            v == out.arg
            low == SetterLow(out.op)
            high == SetterHigh(out.op)
        IN /\ OneWrite
           /\ low <= n /\ n <= high
           /\ v < low * Scale => n = low
           /\ v > high * Scale => n = high
           /\ (low * Scale <= v /\ v <= high * Scale) =>
                  (n * Scale <= v /\ v < (n + 1) * Scale)
           /\ out.exc \in {"none", "WinetAPIConnectionError"}
           /\ (out.op = "set_power" /\ v = 0 * Scale) => n = 1
           /\ (out.op = "set_power" /\ v = 10 * Scale) => n = 5
           /\ (out.op = "set_temperature" /\ v = (-5) * Scale) => n = 5
           /\ (out.op = "set_temperature" /\ v = 99 * Scale) => n = 40

\* set_temperature(21.5) has sent 21
C2_Witness ==
    /\ out.op = "set_temperature"
    /\ out.arg * 2 = 43 * Scale
    /\ out.reqs[1].value = 21

\* the change-status POST: the key "022" and no category field
ChangeStatusRequest ==
    [url |-> "/ajax/get-registers", key |-> "022", category |-> "",
     memory |-> -1, regId |-> -1, value |-> -1]

\* C3: turn_on posts exactly one change-status request when the status is
\* OFF and nothing for every other status (UNKNOWN and ALARM included);
\* turn_off posts nothing when the status is OFF and exactly one
\* change-status request for every other status.
C3_RequestsOnlyWhenStateDiffers ==
    [][ /\ out'.op = "turn_on" =>
               out'.reqs = IF data.status = ST_OFF
                           THEN <<ChangeStatusRequest>> ELSE << >>
        /\ out'.op = "turn_off" =>
               out'.reqs = IF data.status = ST_OFF
                           THEN << >> ELSE <<ChangeStatusRequest>>
      ]_vars

\* turn_on has posted its request to a stove that is OFF
C3_Witness ==
    /\ out.op = "turn_on"
    /\ data.status = ST_OFF
    /\ Len(out.reqs) = 1

\* C4: at most one update_data cycle is in flight at any time; a call made
\* while another cycle holds the guard returns at once, with no request, no
\* change of the device state, no eco_mode_drive, and nothing left behind
\* that would run later: a caller enters a cycle only by its own call that
\* finds the guard free.
C4_AtMostOneCycleInFlight ==
    /\ [](Cardinality({t \in Callers : pc[t] # "idle"}) <= 1)
    /\ [][ (out'.op = "update_data" /\ update_lock # 0) =>
               /\ out'.reqs = << >>
               /\ data' = data
               /\ count_delta_ecomode_asked' = count_delta_ecomode_asked
               /\ update_lock' = update_lock
               /\ pc' = pc
               /\ cycle'[out'.arg].result = "rejected"
               /\ cycle'[out'.arg].reqs = << >>
               /\ cycle'[out'.arg].steps = 0
               /\ cycle'[out'.arg].eco = 0
               /\ \A u \in Callers \ {out'.arg} : cycle'[u] = cycle[u]
         ]_vars
    /\ [][ \A t \in Callers :
               (pc[t] = "idle" /\ pc'[t] # "idle") =>
                   /\ out'.op = "update_data"
                   /\ out'.arg = t
                   /\ update_lock = 0
                   /\ update_lock' = t
         ]_vars

\* a call has been dropped while another caller's cycle holds the guard
C4_Witness ==
    \E t \in Callers :
        /\ out.op = "update_data"
        /\ out.arg = t
        /\ cycle[t].result = "rejected"
        /\ update_lock \notin {0, t}
        /\ pc[update_lock] = "try"

\* C5: a cycle that acquired the guard and has ended has attempted all four
\* poll steps, whichever of them failed, has invoked eco_mode_drive exactly
\* once after them, and lets out no exception but the failure of
\* eco_mode_drive's own write.
C5_EveryStepAttempted ==
    \A t \in Callers :
        cycle[t].result \in {"returned", "raised"} =>
            /\ cycle[t].steps = 4
            /\ cycle[t].eco = 1
            /\ cycle[t].exc \in {"none", "WinetAPIConnectionError"}

\* a get-registers POST of the polling cycle
PollRequest(key, category) ==
    [url |-> "/ajax/get-registers", key |-> key, category |-> category,
     memory |-> -1, regId |-> -1, value |-> -1]

\* C6: a cycle that acquired the guard and has ended has posted exactly four
\* get-registers requests, in this order: the hardware poll with a key and
\* no category field, then the polls of key "020" with the categories "2",
\* "4" and "6".
C6_FourPollsInOrder ==
    \A t \in Callers :
        cycle[t].result \in {"returned", "raised"} =>
            LET polls == SelectSeq(cycle[t].reqs,
                                   LAMBDA q : q.url = "/ajax/get-registers")
            IN /\ Len(polls) = 4
               /\ polls[1].category = ""
               /\ polls[1].key # ""
               /\ polls[2] = PollRequest("020", "2")
               /\ polls[3] = PollRequest("020", "4")
               /\ polls[4] = PollRequest("020", "6")

\* the set-register POST that writes n to the temperature setpoint
TemperatureWrite(n) ==
    [url |-> "/ajax/set-register", key |-> "002", category |-> "",
     memory |-> 1, regId |-> 50, value |-> n]

\* x brought into the thermostat range [5, 40]
Bounded(x) == IF x < 5 THEN 5 ELSE IF x > 40 THEN 40 ELSE x

\* C7: with the drive enabled, exactly one heating request pending and the
\* status ECO_STOP, eco_mode_drive posts exactly one temperature write, of
\* temperature_read + delta brought into [5, 40], if temperature_set -
\* temperature_read <= delta, and posts nothing if the gap exceeds delta;
\* the counter stays at 1 in both cases.  Setpoint 18, read 16, delta 2
\* writes 18.
C7_NudgeWhenGapWithinDelta ==
    [][ ( /\ out'.op = "eco_mode_drive"
          /\ data.eco_mode_drive_activated
          /\ count_delta_ecomode_asked = 1
          /\ data.status = ST_ECO_STOP ) =>
            /\ count_delta_ecomode_asked' = 1
            /\ out'.reqs =
                   IF data.temperature_set - data.temperature_read <= delta_ecomode
                   THEN <<TemperatureWrite(
                              Bounded(data.temperature_read + delta_ecomode))>>
                   ELSE << >>
            /\ ( /\ data.temperature_set = 18
                 /\ data.temperature_read = 16
                 /\ delta_ecomode = 2 ) => out'.reqs = <<TemperatureWrite(18)>>
      ]_vars

\* the example: setpoint 18, read 16, delta 2, one request pending, and the
\* drive has written 18
C7_Witness ==
    /\ out.op = "eco_mode_drive"
    /\ data.eco_mode_drive_activated
    /\ data.status = ST_ECO_STOP
    /\ count_delta_ecomode_asked = 1
    /\ data.temperature_set = 18
    /\ data.temperature_read = 16
    /\ delta_ecomode = 2
    /\ out.reqs = <<TemperatureWrite(18)>>

\* C8: in a run request -> nudge -> poll -> confirmation, the confirming
\* eco_mode_drive (drive enabled, counter > 0, status WORK) resets the
\* counter to zero and posts exactly one temperature write, of the setpoint
\* that was in force when heating was requested.
C8_ConfirmationWritesDesiredSetpoint ==
    [][ ( /\ out'.op = "eco_mode_drive"
          /\ data.eco_mode_drive_activated
          /\ count_delta_ecomode_asked > 0
          /\ data.status = ST_WORK
          /\ desired.phase = "echoed" ) =>
            /\ count_delta_ecomode_asked' = 0
            /\ out'.reqs = <<TemperatureWrite(Bounded(desired.setpoint))>>
      ]_vars

\* C9: eco_mode_drive with the drive disabled or the counter at 0 posts
\* nothing and leaves the counter and the device state as they are, whatever
\* the status and the temperatures; the counter is never negative, and it
\* changes only by +1 in start_eco_mode_heating and by the reset to 0 of
\* eco_mode_drive's WORK branch.
C9_DriveActsOnlyWhenEnabledAndPending ==
    /\ [](count_delta_ecomode_asked >= 0)
    /\ [][ ( /\ out'.op = "eco_mode_drive"
             /\ (~data.eco_mode_drive_activated \/ count_delta_ecomode_asked = 0) ) =>
               /\ out'.reqs = << >>
               /\ count_delta_ecomode_asked' = count_delta_ecomode_asked
               /\ data' = data
         ]_vars
    /\ [][ count_delta_ecomode_asked' # count_delta_ecomode_asked =>
               \/ /\ out'.op = "start_eco_mode_heating"
                  /\ count_delta_ecomode_asked' = count_delta_ecomode_asked + 1
               \/ /\ out'.op = "eco_mode_drive"
                  /\ data.eco_mode_drive_activated
                  /\ data.status = ST_WORK
                  /\ count_delta_ecomode_asked > 0
                  /\ count_delta_ecomode_asked' = 0
         ]_vars

\* eco_mode_drive has run with the drive disabled on a heating stove with a
\* request pending, and has posted nothing
C9_Witness ==
    /\ out.op = "eco_mode_drive"
    /\ ~data.eco_mode_drive_activated
    /\ count_delta_ecomode_asked > 0
    /\ data.status = ST_WORK
    /\ out.reqs = << >>

\* C10: set_temperature_ask_by_external_entity(v) posts a temperature write
\* and records v if and only if the auto-regulated flag is on, the status is
\* WORK and v differs from the known temperature_set; otherwise it posts
\* nothing and changes no state; the write it posts is never redundant, that
\* is, never of the setpoint already known.
C10_WritesIffGuardAndNeverRedundant ==
    [][ out'.op = "set_temperature_ask_by_external_entity" =>
            IF /\ data.auto_regulated_temperature
               /\ data.status = ST_WORK
               /\ out'.arg # data.temperature_set * Scale
            THEN /\ Len(out'.reqs) = 1
                 /\ out'.reqs[1].url = "/ajax/set-register"
                 /\ out'.reqs[1].regId = 50
                 /\ out'.reqs[1].value # data.temperature_set
                 /\ out'.exc = "none" =>
                        data'.temperature_ask_by_external_entity = out'.arg
            ELSE /\ out'.reqs = << >>
                 /\ data' = data
                 /\ count_delta_ecomode_asked' = count_delta_ecomode_asked
                 /\ delta_ecomode' = delta_ecomode
      ]_vars

\* the i-th request of the current call failed with a transient failure
SentTransient(i) ==
    /\ http.sent[i].kind = "raises"
    /\ http.sent[i].exc \in TransientFailures

\* the current call of execute is over or in its finally
ExecuteOver == http.pc \in {"finally", "done"}

\* C11: while fewer than max_retries requests of a GET or POST call have
\* been sent and all of them failed with a transient failure, the call goes
\* on to another attempt; and when k < max_retries transient failures are followed by a
\* 200 answer with a JSON body, the call is over after these k + 1 requests,
\* it returns that body, and it has slept exactly k times.
C11_ReturnsAfterTransientFailures ==
    LET n == Len(http.sent) IN
    /\ ( /\ http.pc # "idle"
         /\ http.method \in {"GET", "POST"}
         /\ n < http.max_retries
         /\ \A i \in 1 .. n : SentTransient(i) ) =>
           /\ http.pc \in {"single", "sleep"}
           /\ http.result.kind = "none"
    /\ ( /\ n >= 1
         /\ \A i \in 1 .. (n - 1) : SentTransient(i)
         /\ http.sent[n].kind = "response"
         /\ http.sent[n].status = 200
         /\ http.sent[n].json ) =>
           /\ ExecuteOver
           /\ n <= http.max_retries
           /\ http.result.kind = "returned"
           /\ http.result.value = [type |-> "json", body |-> http.sent[n].body]
           /\ http.delays = n - 1

\* two transient failures, then a success: the call has returned the
\* payload after three requests and two delays
C11_Witness ==
    /\ http.pc = "done"
    /\ Len(http.sent) = 3
    /\ SentTransient(1)
    /\ SentTransient(2)
    /\ http.sent[3] = [kind |-> "response", exc |-> "none", status |-> 200,
                       json |-> TRUE, body |-> 2]
    /\ http.result.kind = "returned"
    /\ http.result.value.body = 2
    /\ http.delays = 2

\* C12: when max_retries (>= 1) requests of a call have all failed with a
\* transient failure, the call is over after exactly these requests, with
\* max_retries - 1 delays, and it raises a WinetAPIConnectionError that
\* wraps the last failure.
C12_ExhaustionRaisesWrappedConnectionError ==
    LET n == Len(http.sent) IN
    ( /\ n >= 1
      /\ n = http.max_retries
      /\ \A i \in 1 .. n : SentTransient(i) ) =>
        /\ ExecuteOver
        /\ http.delays = n - 1
        /\ http.result.kind = "raised"
        /\ http.result.exc.type = "WinetAPIConnectionError"
        /\ http.result.exc.wraps = http.sent[n].exc

\* C13: an answer whose status is not 200 ends the call: no request and no
\* delay follows it, and the call raises a WinetAPIConnectionError; when it
\* answers the first request, that is one attempt and no delay, whatever
\* max_retries >= 1 is.
C13_StatusNotOkIsNotRetried ==
    LET n == Len(http.sent) IN
    ( /\ n >= 1
      /\ http.sent[n].kind = "response"
      /\ http.sent[n].status # 200 ) =>
        /\ ExecuteOver
        /\ http.max_retries >= 1
        /\ http.result.kind = "raised"
        /\ http.result.exc.type = "WinetAPIConnectionError"
        /\ http.delays = n - 1
        /\ (\A i \in 1 .. (n - 1) : SentTransient(i))
        /\ n = 1 => http.delays = 0

\* the first request of a call with max_retries = 3 was answered 500 and the
\* call is over with a connection error
C13_Witness ==
    /\ http.pc = "done"
    /\ http.max_retries = 3
    /\ Len(http.sent) = 1
    /\ http.sent[1].kind = "response"
    /\ http.sent[1].status = 500
    /\ http.result.kind = "raised"
    /\ http.result.exc.type = "WinetAPIConnectionError"
    /\ http.delays = 0

\* C14: a 200 answer whose body is not JSON ends the call: no request and
\* no delay follows it, and the call raises a WinetAPIJsonDecodeError, an
\* error kind that is not the connection error.
C14_BadJsonRaisesDecodeError ==
    LET n == Len(http.sent) IN
    ( /\ n >= 1
      /\ http.sent[n].kind = "response"
      /\ http.sent[n].status = 200
      /\ ~http.sent[n].json ) =>
        /\ ExecuteOver
        /\ http.delays = n - 1
        /\ http.result.kind = "raised"
        /\ http.result.exc.type = "WinetAPIJsonDecodeError"

\* C15: a call of execute never closes the session its caller supplied; it
\* does not close the session it created while the request is still being
\* tried, and on every way out (a value returned, a failure that is not
\* retried, the retries exhausted) it has closed it exactly once.
C15_OwnSessionClosedOnce ==
    /\ http.closed.supplied = 0
    /\ http.pc \in {"single", "sleep", "finally"} => http.closed.created = 0
    /\ http.pc = "done" =>
           http.closed.created = IF http.session = "none" THEN 1 ELSE 0

\* a call without a session of the caller's has exhausted its retries and
\* closed the session it created
C15_Witness ==
    /\ http.pc = "done"
    /\ http.session = "none"
    /\ http.created_session
    /\ Len(http.sent) = 3
    /\ http.result.kind = "raised"
    /\ http.closed.created = 1

\* the merged register mapping holds the register
Present(params, registerid) ==
    \E i \in 1 .. Len(params) : params[i][1] = registerid

\* the value the merged register mapping holds for a register that is present
MergedValue(params, registerid) ==
    CHOOSE v \in {params[i][2] : i \in 1 .. Len(params)} :
        \E i \in 1 .. Len(params) : params[i] = <<registerid, v>>

\* C16: get_changed_fields returns the whole changed set and leaves it empty,
\* touching nothing else of the device state; between two drains the updates
\* only add names to the set, so a drain returns every name marked since the
\* drain before it; a drain that follows a drain at once returns the empty set.
C16_DrainIsReadAndClear ==
    /\ [][out'.op = "get_changed_fields" =>
             /\ out'.ret = data.changed_fields
             /\ data' = [data EXCEPT !.changed_fields = {}]
             /\ (out.op = "get_changed_fields" => out'.ret = {})]_vars
    /\ [][out'.op = "update" => data.changed_fields \subseteq data'.changed_fields]_vars

\* a drain has returned the names that an update of category 2 and an update
\* of category 4 marked before it
C16_Witness ==
    /\ out.op = "get_changed_fields"
    /\ out.ret = {"temperature_read", "temperature_set", "power_set", "status",
                  "fan_configuration"}
    /\ data.changed_fields = {}

\* C17: an update that returns, a drain, and then the same update again (the
\* same snapshot, the same category) leave the changed set empty, so that the
\* next drain returns nothing.
C17_RedecodeMarksNothing ==
    [][( /\ out.op = "get_changed_fields"
         /\ out.last_update.some
         /\ out.last_update.exc = "none"
         /\ out'.op = "update"
         /\ out'.exc = "none"
         /\ out'.last_update = out.last_update ) => data'.changed_fields = {}]_vars

\* C18 as stated: an update of category 4 that returns adds exactly
\* "fan_configuration" to the changed set and leaves status, both temperatures,
\* the power, the fan speed and the alarms as they were.
C18_Category4MarksOnlyFanConfiguration ==
    [][( /\ out'.op = "update"
         /\ out'.arg = POLL_CATEGORY_4
         /\ out'.exc = "none" ) =>
            /\ data'.changed_fields = data.changed_fields \cup {"fan_configuration"}
            /\ data'.status = data.status
            /\ data'.temperature_read = data.temperature_read
            /\ data'.temperature_set = data.temperature_set
            /\ data'.power_set = data.power_set
            /\ data'.fan_speed = data.fan_speed
            /\ data'.alarms = data.alarms]_vars

\* C18 amended: an update of category 4 that returns decodes no field but the
\* status. It adds "fan_configuration" to the changed set and, when the merged
\* mapping holds the status register, sets status to that register and adds
\* "status" as well; without the register status stays. Both temperatures, the
\* power, the fan speed and the alarms are left as they were.
C18_Category4DecodesOnlyStatus ==
    [][( /\ out'.op = "update"
         /\ out'.arg = POLL_CATEGORY_4
         /\ out'.exc = "none" ) =>
            /\ data'.changed_fields =
                   data.changed_fields \cup {"fan_configuration"}
                       \cup (IF Present(data'.params, STATUS) THEN {"status"} ELSE {})
            /\ data'.status = IF Present(data'.params, STATUS)
                              THEN MergedValue(data'.params, STATUS)
                              ELSE data.status
            /\ data'.temperature_read = data.temperature_read
            /\ data'.temperature_set = data.temperature_set
            /\ data'.power_set = data.power_set
            /\ data'.fan_speed = data.fan_speed
            /\ data'.alarms = data.alarms]_vars

\* an update of category 4 has merged a status and a probe temperature that
\* no update of category 2 decoded before: the status is decoded and marked,
\* the temperature is not
C18_Witness ==
    /\ out.op = "update"
    /\ out.arg = POLL_CATEGORY_4
    /\ out.exc = "none"
    /\ data.changed_fields = {"fan_configuration", "status"}
    /\ data.status = ST_WORK
    /\ Present(data.params, TEMPERATURE_PROBE)
    /\ data.temperature_read # MergedValue(data.params, TEMPERATURE_PROBE)

\* C19: when an update of category 2 has returned, each of the status, probe
\* temperature, set temperature and power registers that the merged mapping
\* holds equals its decoded field, whichever other registers are absent, and
\* the changed set holds the four names.
C19_Category2FieldsConsistent ==
    ( /\ out.op = "update"
      /\ out.arg = POLL_CATEGORY_2
      /\ out.exc = "none" ) =>
        /\ Present(data.params, STATUS) =>
               data.status = MergedValue(data.params, STATUS)
        /\ Present(data.params, TEMPERATURE_PROBE) =>
               data.temperature_read = MergedValue(data.params, TEMPERATURE_PROBE)
        /\ Present(data.params, TEMPERATURE_SET) =>
               data.temperature_set = MergedValue(data.params, TEMPERATURE_SET)
        /\ Present(data.params, POWER_SET) =>
               data.power_set = MergedValue(data.params, POWER_SET)
        /\ {"status", "temperature_read", "temperature_set", "power_set"}
               \subseteq data.changed_fields

\* C20: the alarms list never holds more than one alarm; when an update of
\* category 6 has returned and the merged alarm register holds a known code
\* v >= 0, the list is exactly that one alarm, whatever it held before, and the
\* fan speed equals the merged fan register if the mapping holds one.
C20_AlarmsReplacedNotAppended ==
    /\ Len(data.alarms) <= 1
    /\ ( /\ out.op = "update"
         /\ out.arg = POLL_CATEGORY_6
         /\ out.exc = "none"
         /\ Present(data.params, ALARMS_BITS)
         /\ MergedValue(data.params, ALARMS_BITS) \in CircularDeviceAlarm ) =>
            /\ data.alarms = <<MergedValue(data.params, ALARMS_BITS)>>
            /\ Present(data.params, FAN_AR_SPEED) =>
                   data.fan_speed = MergedValue(data.params, FAN_AR_SPEED)

\* an update of category 6 whose alarm register changed its value has left
\* the one new alarm and the merged fan speed
C20_Witness ==
    /\ out.op = "update"
    /\ out.arg = POLL_CATEGORY_6
    /\ out.exc = "none"
    /\ out.log = "changed"
    /\ data.alarms = <<3>>
    /\ data.fan_speed = 4
    /\ "alarms" \in data.changed_fields

\* C21: an update of category 2 with a snapshot of a known product model,
\* after which the merged mapping holds no status register, does not raise
\* and leaves status as it was; when the merged mapping holds the probe
\* temperature, the set temperature and the power, the three fields equal them.
C21_MissingStatusIsNotFatal ==
    [][( /\ out'.op = "update"
         /\ out'.arg = POLL_CATEGORY_2
         /\ out'.last_update.newdata.model \in WinetProductModel
         /\ ~Present(data'.params, STATUS) ) =>
            /\ out'.exc = "none"
            /\ data'.status = data.status
            /\ ( /\ Present(data'.params, TEMPERATURE_PROBE)
                 /\ Present(data'.params, TEMPERATURE_SET)
                 /\ Present(data'.params, POWER_SET) ) =>
                    /\ data'.temperature_read =
                           MergedValue(data'.params, TEMPERATURE_PROBE)
                    /\ data'.temperature_set =
                           MergedValue(data'.params, TEMPERATURE_SET)
                    /\ data'.power_set = MergedValue(data'.params, POWER_SET)]_vars

\* an update of category 2 without a status register has returned with the
\* status still unknown and with the three fields decoded anew
C21_Witness ==
    /\ out.op = "update"
    /\ out.arg = POLL_CATEGORY_2
    /\ out.exc = "none"
    /\ out.log = "changed"
    /\ ~Present(data.params, STATUS)
    /\ data.status = ST_UNKNOWN
    /\ data.temperature_read = 17
    /\ data.temperature_set = 22
    /\ data.power_set = 4

\* the pieces of a text
Pieces(text) == {text[i] : i \in 1 .. Len(text)}

\* C22 as stated: a lookup of a register that the merged mapping does not
\* hold (the empty mapping included) returns nothing and raises WinetAPIError,
\* and the error raised names the register id asked for; a lookup of a
\* register that is there returns its value, 0 included, and raises nothing.
C22_LookupErrorNamesRegister ==
    out.op = "get_register_value" =>
        IF Present(data.params, out.arg)
        THEN /\ out.exc = "none"
             /\ out.lookup.returned = {MergedValue(data.params, out.arg)}
        ELSE /\ out.exc = "WinetAPIError"
             /\ out.lookup.returned = {}
             /\ ToString(out.arg) \in Pieces(out.lookup.message)

\* C22 amended: a lookup of a register that the merged mapping does not hold
\* (the empty mapping included) returns nothing and raises WinetAPIError with
\* the constant text "RegisterId not found in data"; the register id asked
\* for is named in the line logged before the raise, not in the error.  A
\* lookup of a register that is there returns its value, 0 included, raises
\* nothing and logs nothing.
C22_LookupDistinguishesAbsenceFromZero ==
    out.op = "get_register_value" =>
        IF Present(data.params, out.arg)
        THEN /\ out.exc = "none"
             /\ out.lookup.returned = {MergedValue(data.params, out.arg)}
             /\ out.lookup.message = << >>
             /\ out.lookup.logged = << >>
        ELSE /\ out.exc = "WinetAPIError"
             /\ out.lookup.returned = {}
             /\ out.lookup.message = <<"RegisterId not found in data">>
             /\ ToString(out.arg) \in Pieces(out.lookup.logged)

\* the lookup of the fan register has raised, with the constant text, on a
\* mapping that holds another register with the value 0
C22_Witness ==
    /\ out.op = "get_register_value"
    /\ out.arg = FAN_AR_SPEED
    /\ out.exc = "WinetAPIError"
    /\ out.lookup.returned = {}
    /\ out.lookup.message = <<"RegisterId not found in data">>
    /\ Present(data.params, POWER_SET)
    /\ MergedValue(data.params, POWER_SET) = 0

\* C23: with several threads calling update and get_changed_fields, at most
\* one of them is inside a call at any time; a get_changed_fields reads the
\* changed set only when no update is merged and not yet decoded and marked;
\* every name an update has marked stays in the changed set until a
\* get_changed_fields copies it (none lost), and a get_changed_fields copies
\* only names that no other one has copied (none returned twice) and returns
\* what it copied.
C23_UpdateAndDrainAreAtomic ==
    /\ [](Cardinality({t \in Callers : threads.at[t] # "idle"}) <= 1)
    /\ [](threads.owed \subseteq data.changed_fields)
    /\ [][\A t \in Callers :
             (threads.at[t] = "drain.copy" /\ threads'.at[t] = "drain.clear") =>
                 /\ \A u \in Callers : threads.at[u] # "update.decode"
                 /\ threads'.fields[t] = threads.owed
                 /\ threads'.owed = {}]_vars
    /\ [][\A t \in Callers :
             (threads.at[t] = "drain.return" /\ threads'.at[t] = "idle") =>
                 /\ out'.ret = threads.fields[t]
                 /\ data.changed_fields = threads.owed]_vars

\* a thread is in the middle of a get_changed_fields that has copied the
\* names an update of another thread marked, while the other thread is out
C23_Witness ==
    \E t \in Callers :
        /\ threads.at[t] = "drain.clear"
        /\ threads.data_lock = t
        /\ threads.fields[t] = {"temperature_read", "temperature_set", "power_set",
                                "status"}
        /\ out.op = "update"
        /\ out.exc = "none"
        /\ \A u \in Callers \ {t} : threads.at[u] = "idle"

\* the get-registers POSTs among the requests of a cycle
PollsOf(reqs) == SelectSeq(reqs, LAMBDA q : q.url = "/ajax/get-registers")

\* C24: when the device answers every get-registers POST of a cycle with a
\* body that has a result key, no poll raises: the body of the cycle goes
\* through its four steps, posts the polls of the categories 2, 4 and 6 one
\* after the other, feeds none of them to update, so that the device state
\* (merged mapping, decoded fields, changed set) is as before, and lets out
\* no exception but that of eco_mode_drive's own write.
C24_ResultKeySkipsStep ==
    [][\A t \in Callers :
          (pc[t] = "try" /\ pc'[t] = "finally") =>
              /\ cycle'[t].steps = Len(Updates)
              /\ \E n \in 3 .. 4 :
                     /\ Len(PollsOf(cycle'[t].reqs)) = n
                     /\ PollsOf(cycle'[t].reqs)[n - 2] = PollRequest("020", "2")
                     /\ PollsOf(cycle'[t].reqs)[n - 1] = PollRequest("020", "4")
                     /\ PollsOf(cycle'[t].reqs)[n] = PollRequest("020", "6")
              /\ data' = data
              /\ cycle'[t].exc \in {"none", "WinetAPIConnectionError"}]_vars

\* C28: when the device answers every poll of a cycle with registers, the
\* cycle feeds them to update (the merged mapping holds the status register
\* afterwards) and drains the changed set after each update: the set is
\* empty when the body of the cycle is over, and a get_changed_fields that
\* the host calls right after the cycle returns the empty set.
C28_CycleDrainsChangedFields ==
    /\ [][\A t \in Callers :
             (pc[t] = "try" /\ pc'[t] = "finally") =>
                 /\ Present(data'.params, STATUS)
                 /\ data'.changed_fields = {}]_vars
    /\ [][(out.op = "update_data.finally" /\ out'.op = "get_changed_fields") =>
             out'.ret = {}]_vars

\* C30: an update whose merged status register holds a code outside
\* CircularDeviceStatus (the snapshot being of a known product model) raises
\* with the snapshot's registers merged, signal, name, alr and model
\* overwritten and status as it was; a cycle whose polls are answered with
\* such a snapshot has merged it in the same way, has gone through its four
\* steps and lets out no exception but that of eco_mode_drive's own write.
C30_DecodeFailureIsNotRolledBack ==
    /\ [][( /\ out'.op = "update"
            /\ out'.last_update.newdata \in BadStatusSnapshots ) =>
               /\ out'.exc = "ValueError"
               /\ \A i \in 1 .. Len(out'.last_update.newdata.params) :
                      MergedValue(data'.params, out'.last_update.newdata.params[i][1])
                          = out'.last_update.newdata.params[i][2]
               /\ data'.signal = OtherMeta.signal
               /\ data'.name = OtherMeta.name
               /\ data'.alr = OtherMeta.alr
               /\ data'.model = OtherMeta.model
               /\ data'.status = data.status]_vars
    /\ [][\A t \in Callers :
             (pc[t] = "try" /\ pc'[t] = "finally") =>
                 /\ cycle'[t].steps = Len(Updates)
                 /\ cycle'[t].exc \in {"none", "WinetAPIConnectionError"}
                 /\ Present(data'.params, STATUS)
                 /\ MergedValue(data'.params, STATUS) = BAD_STATUS
                 /\ data'.signal = OtherMeta.signal
                 /\ data'.name = OtherMeta.name
                 /\ data'.alr = OtherMeta.alr
                 /\ data'.model = OtherMeta.model
                 /\ data'.status = data.status]_vars

\* the five control writes
ControlWrites == {"set_power", "set_fan_speed", "set_temperature", "turn_on", "turn_off"}

\* C25: set_power, set_fan_speed, set_temperature, turn_on and turn_off
\* leave the device state (merged mapping, status, temperatures, power, fan
\* speed, changed set and the rest of CircularApiData) as it was, whatever the
\* device answers; the device state changes only in an update.
C25_ControlWritesDoNotReadBack ==
    /\ [][out'.op \in ControlWrites => data' = data]_vars
    /\ [][data' # data => out'.op = "update"]_vars

\* set_temperature has written 25 and the decoded setpoint is still the 21
\* of the last poll
C25_Witness ==
    /\ out.op = "set_temperature"
    /\ out.exc = "none"
    /\ Len(out.reqs) = 1
    /\ out.reqs[1].value = 25
    /\ data.temperature_set = 21
    /\ MergedValue(data.params, TEMPERATURE_SET) = 21

\* C26: eco_mode_drive on a stove in ECO_STOP with two or more requests
\* pending posts nothing and leaves the counter and the device state as they
\* are, whatever the temperatures, the delta and the switch; the counter goes
\* back to zero only in an eco_mode_drive that finds the status WORK with the
\* drive enabled.
C26_NudgeNeedsExactlyOnePending ==
    /\ [][( /\ out'.op = "eco_mode_drive"
            /\ data.status = ST_ECO_STOP
            /\ count_delta_ecomode_asked >= 2 ) =>
               /\ out'.reqs = << >>
               /\ out'.exc = "none"
               /\ count_delta_ecomode_asked' = count_delta_ecomode_asked
               /\ data' = data]_vars
    /\ [][( /\ count_delta_ecomode_asked > 0
            /\ count_delta_ecomode_asked' = 0 ) =>
               /\ out'.op = "eco_mode_drive"
               /\ data.status = ST_WORK
               /\ data.eco_mode_drive_activated]_vars

\* eco_mode_drive has run with the drive enabled and two requests pending on
\* a stove in ECO_STOP whose setpoint is within the delta of the probe, and
\* has posted nothing
C26_Witness ==
    /\ out.op = "eco_mode_drive"
    /\ data.eco_mode_drive_activated
    /\ data.status = ST_ECO_STOP
    /\ count_delta_ecomode_asked = 2
    /\ data.temperature_set - data.temperature_read <= delta_ecomode
    /\ out.reqs = << >>

\* C27: the end of a cycle frees the guard, with or without an exception
\* going out of the cycle; the guard is free whenever no cycle is in flight,
\* and an update_data called when no cycle is in flight is accepted.
C27_GuardAlwaysReleased ==
    /\ []((\A t \in Callers : pc[t] = "idle") => update_lock = 0)
    /\ [][\A t \in Callers :
             (pc[t] = "finally" /\ pc'[t] = "idle") => update_lock' = 0]_vars
    /\ [][( /\ out'.op = "update_data"
            /\ \A t \in Callers : pc[t] = "idle" ) =>
               /\ cycle'[out'.arg].result = "running"
               /\ pc'[out'.arg] = "try"
               /\ update_lock' = out'.arg]_vars

\* a cycle has ended with an exception going out of it, and the call of
\* another caller after it has been accepted
C27_Witness ==
    \E t, u \in Callers :
        /\ t # u
        /\ cycle[t].result = "raised"
        /\ cycle[t].exc # "none"
        /\ pc[t] = "idle"
        /\ out.op = "update_data"
        /\ out.arg = u
        /\ pc[u] = "try"
        /\ update_lock = u

\* C29: when a host's set_temperature has written a setpoint (the write
\* went through) and eco_mode_drive runs next, with no poll in between, and
\* takes its confirmation branch (status WORK, counter > 0), the setpoint it
\* transmits is the one the host wrote, not an older one.
C29_ConfirmationKeepsHostSetpoint ==
    [][( /\ out.op = "set_temperature"
         /\ out.exc = "none"
         /\ out'.op = "eco_mode_drive"
         /\ out'.log = "ECODRIVE - Start Completed" ) =>
            /\ Len(out'.reqs) = 1
            /\ out'.reqs[1].value = out.reqs[1].value]_vars

====
